---- MODULE Spec2Model ----
(***************************************************************************)
(* A model of the UNO rules engine: the card and deck model (Card.js,     *)
(* Deck.js), the legality and effect rules (GameRules.js), the scoring    *)
(* (Scoring.js) and the game-state transition functions (GameState.js).   *)
(*                                                                         *)
(* JavaScript arrays are sequences whose LAST element is the top of a     *)
(* pile (push / pop act on the end).  A card object is its id; the only   *)
(* mutable field of a card, the colour of a wild, lives in                *)
(* state.wildColor, so that every reference to the same card object sees  *)
(* the same colour.  Player indices are 0-based as in the code.           *)
(***************************************************************************)
EXTENDS Integers, Sequences, FiniteSets, TLC

\* ------------------------------------------------------------------ bounds
\* The deck is built by the loops of createDeck with smaller loop bounds than
\* the 108-card deck: number values 0..MaxValue (source: 0..9), Copies cards
\* of each value 1.. and of each action (source: 2), NumWilds cards of each
\* wild kind (source: 4), and the colours of COLORS below.
MaxValue == 1
Copies == 1
NumWilds == 1
\* Cards dealt to each player at round start (source: 7).
CardsPerPlayer == 2
\* Outcomes of the random source that a shuffle may see.
NumSeeds == 3
\* Outcomes of the random source tried for the shuffle that starts a round
\* when only the start of the round is explored.
NumStartSeeds == 40
\* The highest socket id a reconnecting player may get: each player starts
\* with PlayerId(i) and gets an id 10 higher with every reconnect.
MaxSocketId == 21
\* The timer periods that pass without a request before the next request
\* arrives, and how often that happens while lobbies age.
QuietPeriods == 5
MaxQuiet == 1
\* Requests that change a lobby, explored while lobbies age.
MaxLobbySteps == 9
\* Rounds played, clock range and actions per round explored.
MaxRounds == 2
MaxNow == 6000
MaxSteps == 4
\* The score that ends the game (server.js passes 500).
TargetScore == 40

\* -------------------------------------------------------------- constants
UnoWindowMs == 3000

\* createDeck: the highest number value, the cards of each value from 1 and of
\* each action in a colour, and the cards of each wild kind
DeckMaxValue == 9
DeckCopies == 2
DeckWilds == 4

\* the period of the cleanup timer and the age at which it removes a lobby
CleanupIntervalMs == 1800000
MaxAgeMs == 7200000

NoColor == "none"
AllColors == <<"red", "yellow", "green", "blue">>
\* Card.js COLORS, cut to the first two colours to keep the deck small.
COLORS == SubSeq(AllColors, 1, 2)
ColorSet == {COLORS[i] : i \in 1..Len(COLORS)}
ACTION_TYPES == <<"skip", "reverse", "drawTwo">>
\* colours a client may send: none (null), the valid ones, an invalid string
ColorInputs == {NoColor, "purple"} \cup ColorSet

PlayerCounts == {2, 3}
\* socket ids of the players at game start, and an id that is no player's
PlayerId(i) == 10 + i
UnknownId == 99
NoPlayer == 0
NoCard == 0

\* ---------------------------------------------------------- sequence help
Last(s) == s[Len(s)]
Front(s) == SubSeq(s, 1, Len(s) - 1)
RemoveAt(s, i) == SubSeq(s, 1, i - 1) \o SubSeq(s, i + 1, Len(s))
Swap(s, i, j) == [s EXCEPT ![i] = s[j], ![j] = s[i]]
Range(s) == {s[i] : i \in 1..Len(s)}

RECURSIVE Flatten(_)
Flatten(ss) == IF ss = <<>> THEN <<>> ELSE Head(ss) \o Flatten(Tail(ss))

RECURSIVE SumSeq(_)
SumSeq(s) == IF s = <<>> THEN 0 ELSE Head(s) + SumSeq(Tail(s))

\* ------------------------------------------------------------------- deck
Card(type, color, value) == [type |-> type, color |-> color, value |-> value]
NoValue == -1

\* the cards createDeck pushes for one colour, in the order it pushes them,
\* for number values up to maxValue and copies cards of each kind
ColorCardsOf(color, maxValue, copies) ==
    <<Card("number", color, 0)>>
    \o Flatten([v \in 1..maxValue |-> [k \in 1..copies |-> Card("number", color, v)]])
    \o Flatten([a \in 1..Len(ACTION_TYPES) |->
                  [k \in 1..copies |-> Card(ACTION_TYPES[a], color, NoValue)]])
ColorCards(color) == ColorCardsOf(color, MaxValue, Copies)

\* createDeck with two cards of value 0 in each colour
createDeckOfTwoZeros(colors, maxValue, copies, numWilds) ==
    Flatten([c \in 1..Len(colors) |->
               <<Card("number", colors[c], 0)>>
               \o ColorCardsOf(colors[c], maxValue, copies)])
    \o [k \in 1..numWilds |-> Card("wild", NoColor, NoValue)]
    \o [k \in 1..numWilds |-> Card("wildDrawFour", NoColor, NoValue)]

\* the loops of createDeck over the given colours and loop bounds
createDeckOf(colors, maxValue, copies, numWilds) ==
    Flatten([c \in 1..Len(colors) |-> ColorCardsOf(colors[c], maxValue, copies)])
    \o [k \in 1..numWilds |-> Card("wild", NoColor, NoValue)]
    \o [k \in 1..numWilds |-> Card("wildDrawFour", NoColor, NoValue)]

\* createDeck: the card objects in creation order; a card's id is its position
createDeck == createDeckOf(COLORS, MaxValue, Copies, NumWilds)
\* the deck of the loop bounds the source has
FullDeck == createDeckOf(AllColors, DeckMaxValue, DeckCopies, DeckWilds)

NumCards == Len(createDeck)
CardIds == 1..NumCards
DeckIds == [i \in 1..NumCards |-> i]

typeOf(c) == createDeck[c].type
valueOf(c) == createDeck[c].value
isWild(c) == typeOf(c) = "wild" \/ typeOf(c) = "wildDrawFour"
WildIds == {c \in CardIds : isWild(c)}

\* Card.getPoints
getPoints(c) ==
    CASE typeOf(c) = "number" -> valueOf(c)
      [] typeOf(c) \in {"skip", "reverse", "drawTwo"} -> 20
      [] typeOf(c) \in {"wild", "wildDrawFour"} -> 50
      [] OTHER -> 0

\* the colour field of card c read through the colours wilds currently carry
colorOf(wc, c) == IF isWild(c) THEN wc[c] ELSE createDeck[c].color

\* ---------------------------------------------------------------- shuffle
\* Math.random is a linear congruential generator started from a seed the
\* environment picks; RandomBelow is Math.floor(Math.random() * n).
Seeds == 1..NumSeeds
NextRandom(x) == (x * 73 + 73) % 83
RandomBelow(x, n) == NextRandom(x) % n

\* the Fisher-Yates loop, for i = Len-1 down to 1 (0-based positions)
RECURSIVE shuffleFrom(_, _, _)
shuffleFrom(cards, i, x) ==
    IF i < 1 THEN cards
    ELSE shuffleFrom(Swap(cards, i + 1, RandomBelow(x, i + 1) + 1), i - 1, NextRandom(x))

shuffle(cards, seed) == shuffleFrom(cards, Len(cards) - 1, seed)

\* reshuffleDiscardPile that leaves the colours chosen for the wilds on them
reshuffleDiscardPileKeepsColors(discardPile, wc, seed) ==
    IF Len(discardPile) <= 1
    THEN [newDrawPile |-> <<>>, newDiscardPile |-> discardPile, wildColor |-> wc]
    ELSE [newDrawPile |-> shuffle(Front(discardPile), seed),
          newDiscardPile |-> <<Last(discardPile)>>,
          wildColor |-> wc]

\* reshuffleDiscardPile: result piles and the wild colours after the reset
reshuffleDiscardPile(discardPile, wc, seed) ==
    IF Len(discardPile) <= 1
    THEN [newDrawPile |-> <<>>, newDiscardPile |-> discardPile, wildColor |-> wc]
    ELSE LET topCard == Last(discardPile)
             cardsToShuffle == Front(discardPile)
         IN [newDrawPile |-> shuffle(cardsToShuffle, seed),
             newDiscardPile |-> <<topCard>>,
             wildColor |-> [c \in DOMAIN wc |->
                              IF c \in Range(cardsToShuffle) THEN NoColor ELSE wc[c]]]

\* drawCards: the loop body runs count times unless the piles run dry
RECURSIVE drawLoop(_, _, _, _, _, _)
drawLoop(drawPile, discardPile, wc, drawnCards, left, seed) ==
    IF left = 0
    THEN [drawnCards |-> drawnCards, drawPile |-> drawPile,
          discardPile |-> discardPile, wildColor |-> wc]
    ELSE IF drawPile = <<>>
         THEN LET r == reshuffleDiscardPile(discardPile, wc, seed)
              IN IF r.newDrawPile = <<>>
                 THEN [drawnCards |-> drawnCards, drawPile |-> r.newDrawPile,
                       discardPile |-> r.newDiscardPile, wildColor |-> r.wildColor]
                 ELSE drawLoop(Front(r.newDrawPile), r.newDiscardPile, r.wildColor,
                               Append(drawnCards, Last(r.newDrawPile)), left - 1, seed)
         ELSE drawLoop(Front(drawPile), discardPile, wc,
                       Append(drawnCards, Last(drawPile)), left - 1, seed)

\* drawCards that stops at an empty draw pile instead of recycling the discards
drawCardsNoReshuffle(drawPile, discardPile, wc, count, seed) ==
    LET got == IF count <= Len(drawPile) THEN count ELSE Len(drawPile)
    IN [drawnCards |-> [k \in 1..got |-> drawPile[Len(drawPile) + 1 - k]],
        drawPile |-> SubSeq(drawPile, 1, Len(drawPile) - got),
        discardPile |-> discardPile, wildColor |-> wc]

\* drawCards that recycles the whole discard pile, its top card included
drawCardsRecyclesTop(drawPile, discardPile, wc, count, seed) ==
    IF count <= Len(drawPile)
    THEN drawLoop(drawPile, discardPile, wc, <<>>, count, seed)
    ELSE drawLoop(shuffle(discardPile, seed) \o drawPile, <<>>, wc, <<>>, count, seed)

drawCards(drawPile, discardPile, wc, count, seed) ==
    drawLoop(drawPile, discardPile, wc, <<>>, count, seed)

\* dealHands: one card per player per pass, popped from the end of the deck
RECURSIVE dealLoop(_, _, _, _, _)
dealLoop(deck, hands, playerCount, k, total) ==
    IF k = total THEN [hands |-> hands, remainingDeck |-> deck]
    ELSE IF deck = <<>> THEN dealLoop(deck, hands, playerCount, k + 1, total)
    ELSE dealLoop(Front(deck),
                  [hands EXCEPT ![k % playerCount] = Append(@, Last(deck))],
                  playerCount, k + 1, total)

dealHands(deck, playerCount, cardsPerPlayer) ==
    dealLoop(deck, [i \in 0..(playerCount - 1) |-> <<>>], playerCount, 0,
             playerCount * cardsPerPlayer)

\* getStartingCard: seeds holds the outcome of each reshuffle the loop makes;
\* done is FALSE when the loop would need more reshuffles than seeds supplies
RECURSIVE startLoop(_, _, _)
startLoop(startCard, deck, seeds) ==
    IF typeOf(startCard) # "wildDrawFour"
    THEN [startCard |-> startCard, deck |-> deck, done |-> TRUE]
    ELSE IF seeds = <<>>
         THEN [startCard |-> startCard, deck |-> deck, done |-> FALSE]
         ELSE LET d == shuffle(<<startCard>> \o deck, Head(seeds))
              IN startLoop(Last(d), Front(d), Tail(seeds))

\* getStartingCard that turns up the top card whatever it is
getStartingCardAnyCard(deck, seeds) ==
    [startCard |-> Last(deck), deck |-> Front(deck), done |-> TRUE]

getStartingCard(deck, seeds) == startLoop(Last(deck), Front(deck), seeds)

\* ------------------------------------------------------------ game rules
\* The game state is one record, as the object createGameState returns;
\* players is a function on 0..n-1 of records (id, hand, score, connected,
\* calledUno).
playerCount(state) == Cardinality(DOMAIN state.players)
PlayerIdx(state) == DOMAIN state.players

\* canPlayCard with the wild check moved in front of the stack check
canPlayCardWildFirst(card, state) ==
    LET topCard == Last(state.discardPile)
    IN IF isWild(card) THEN TRUE
       ELSE IF state.stackedDrawCount > 0
       THEN (state.stackType = "drawTwo" /\ typeOf(card) = "drawTwo")
            \/ typeOf(card) \in {"reverse", "skip"}
       ELSE \/ colorOf(state.wildColor, card) = state.currentColor
            \/ typeOf(card) = "number" /\ typeOf(topCard) = "number"
                 /\ valueOf(card) = valueOf(topCard)
            \/ typeOf(card) # "number" /\ typeOf(card) = typeOf(topCard)

\* canPlayCard(card, state).canPlay
canPlayCard(card, state) ==
    LET topCard == Last(state.discardPile)
        currentColor == state.currentColor
    IN IF state.stackedDrawCount > 0
       THEN IF state.stackType = "drawTwo" /\ typeOf(card) = "drawTwo" THEN TRUE
            ELSE IF state.stackType = "drawFour" /\ typeOf(card) = "wildDrawFour" THEN TRUE
            ELSE IF typeOf(card) = "reverse" THEN TRUE
            ELSE IF typeOf(card) = "skip" THEN TRUE
            ELSE FALSE
       ELSE IF isWild(card) THEN TRUE
       ELSE IF colorOf(state.wildColor, card) = currentColor THEN TRUE
       ELSE IF typeOf(card) = "number" /\ typeOf(topCard) = "number"
               /\ valueOf(card) = valueOf(topCard) THEN TRUE
       ELSE IF typeOf(card) # "number" /\ typeOf(card) = typeOf(topCard) THEN TRUE
       ELSE FALSE

\* the switch of applyCardEffect without the two-player rule for a Reverse
cardTypeEffectPlainReverse(card, state) ==
    CASE typeOf(card) = "skip" -> [state EXCEPT !.skipNextPlayer = TRUE]
      [] typeOf(card) = "reverse" -> [state EXCEPT !.direction = state.direction * (-1)]
      [] typeOf(card) = "drawTwo" ->
            [state EXCEPT !.stackedDrawCount = @ + 2, !.stackType = "drawTwo"]
      [] typeOf(card) = "wildDrawFour" ->
            [state EXCEPT !.stackedDrawCount = @ + 4, !.stackType = "drawFour"]
      [] OTHER -> state

\* the switch of applyCardEffect on card.type
cardTypeEffect(card, state) ==
    CASE typeOf(card) = "skip" -> [state EXCEPT !.skipNextPlayer = TRUE]
      [] typeOf(card) = "reverse" ->
            [state EXCEPT !.direction = state.direction * (-1),
                          !.skipNextPlayer = IF playerCount(state) = 2 THEN TRUE ELSE @]
      [] typeOf(card) = "drawTwo" ->
            [state EXCEPT !.stackedDrawCount = @ + 2, !.stackType = "drawTwo"]
      [] typeOf(card) = "wildDrawFour" ->
            [state EXCEPT !.stackedDrawCount = @ + 4, !.stackType = "drawFour"]
      [] OTHER -> state

\* applyCardEffect: the card is pushed before the colour is validated, so a
\* throw leaves it on the discard pile; threw tells whether the Error was thrown
applyCardEffect(card, state, chosenColor) ==
    LET pushed == [state EXCEPT !.discardPile = Append(@, card)]
    IN IF isWild(card)
       THEN IF chosenColor = NoColor \/ chosenColor \notin ColorSet
            THEN [state |-> pushed, threw |-> TRUE]
            ELSE [state |-> cardTypeEffect(card,
                               [pushed EXCEPT !.currentColor = chosenColor,
                                              !.wildColor[card] = chosenColor]),
                  threw |-> FALSE]
       ELSE [state |-> cardTypeEffect(card,
                          [pushed EXCEPT !.currentColor = colorOf(state.wildColor, card)]),
             threw |-> FALSE]

\* one move of currentPlayerIndex by direction, modulo the player count
stepIndex(state, idx) == (idx + state.direction + playerCount(state)) % playerCount(state)

\* advanceTurn that forgets to clear skipNextPlayer
advanceTurnKeepsSkip(state) ==
    LET first == stepIndex(state, state.currentPlayerIndex)
        idx == IF state.skipNextPlayer THEN stepIndex(state, first) ELSE first
    IN [state EXCEPT !.currentPlayerIndex = idx,
                     !.players[idx].calledUno = FALSE]

\* advanceTurn
advanceTurn(state) ==
    LET first == stepIndex(state, state.currentPlayerIndex)
        idx == IF state.skipNextPlayer THEN stepIndex(state, first) ELSE first
    IN [state EXCEPT !.currentPlayerIndex = idx,
                     !.skipNextPlayer = FALSE,
                     !.players[idx].calledUno = FALSE]

\* processDrawnCards that empties the stack and keeps its type
processDrawnCardsKeepsType(state, playerIndex, drawnCards) ==
    LET s1 == [state EXCEPT !.players[playerIndex].hand = @ \o drawnCards]
    IN IF s1.stackedDrawCount > 0
       THEN [s1 EXCEPT !.stackedDrawCount = 0]
       ELSE s1
\* processDrawnCards
processDrawnCards(state, playerIndex, drawnCards) ==
    LET s1 == [state EXCEPT !.players[playerIndex].hand = @ \o drawnCards]
    IN IF s1.stackedDrawCount > 0
       THEN [s1 EXCEPT !.stackedDrawCount = 0, !.stackType = "none"]
       ELSE s1

\* applyFirstCardEffect whose Reverse hands the first turn to player 1 at
\* every table size
applyFirstCardEffectReverseToNext(firstCard, state) ==
    LET s1 == IF isWild(firstCard)
              THEN [state EXCEPT !.awaitingColorChoice = TRUE, !.currentColor = NoColor]
              ELSE [state EXCEPT !.currentColor = colorOf(state.wildColor, firstCard)]
    IN CASE typeOf(firstCard) = "skip" ->
              [s1 EXCEPT !.currentPlayerIndex = stepIndex(s1, s1.currentPlayerIndex)]
         [] typeOf(firstCard) = "reverse" ->
              [s1 EXCEPT !.direction = -1, !.currentPlayerIndex = 1]
         [] typeOf(firstCard) = "drawTwo" ->
              [s1 EXCEPT !.stackedDrawCount = 2, !.stackType = "drawTwo"]
         [] OTHER -> s1

\* applyFirstCardEffect
applyFirstCardEffect(firstCard, state) ==
    LET s1 == IF isWild(firstCard)
              THEN [state EXCEPT !.awaitingColorChoice = TRUE, !.currentColor = NoColor]
              ELSE [state EXCEPT !.currentColor = colorOf(state.wildColor, firstCard)]
    IN CASE typeOf(firstCard) = "skip" ->
              [s1 EXCEPT !.currentPlayerIndex = stepIndex(s1, s1.currentPlayerIndex)]
         [] typeOf(firstCard) = "reverse" ->
              [s1 EXCEPT !.direction = -1,
                         !.currentPlayerIndex =
                             IF playerCount(s1) = 2 THEN 1 ELSE playerCount(s1) - 1]
         [] typeOf(firstCard) = "drawTwo" ->
              [s1 EXCEPT !.stackedDrawCount = 2, !.stackType = "drawTwo"]
         [] OTHER -> s1

\* canCatchUno
canCatchUno(player) == Len(player.hand) = 1 /\ ~player.calledUno

\* ---------------------------------------------------------------- scoring
\* calculateHandValue
calculateHandValue(hand) == SumSeq([i \in 1..Len(hand) |-> getPoints(hand[i])])

\* calculateRoundScores whose new totals forget the old cumulative score
calculateRoundScoresNoCarry(players, winnerIndex) ==
    LET n == Cardinality(DOMAIN players)
        winnerRoundScore ==
            SumSeq([k \in 1..n |-> IF (k - 1) # winnerIndex
                                   THEN calculateHandValue(players[k - 1].hand)
                                   ELSE 0])
        roundScores == [i \in DOMAIN players |->
                          IF i = winnerIndex THEN winnerRoundScore ELSE 0]
    IN [roundScores |-> roundScores, newTotalScores |-> roundScores]

\* calculateRoundScores(players, winnerIndex)
calculateRoundScores(players, winnerIndex) ==
    LET others == {i \in DOMAIN players : i # winnerIndex}
        n == Cardinality(DOMAIN players)
        winnerRoundScore ==
            SumSeq([k \in 1..n |-> IF (k - 1) # winnerIndex
                                   THEN calculateHandValue(players[k - 1].hand)
                                   ELSE 0])
        roundScores == [i \in DOMAIN players |->
                          IF i = winnerIndex THEN winnerRoundScore ELSE 0]
    IN [roundScores |-> roundScores,
        newTotalScores |-> [i \in DOMAIN players |-> players[i].score + roundScores[i]]]

\* checkGameOver with a strict comparison against the target
checkGameOverStrict(players, targetScore) ==
    LET reached == {i \in DOMAIN players : players[i].score > targetScore}
    IN IF reached # {}
       THEN [gameOver |-> TRUE,
             winnerIndex |-> CHOOSE i \in reached : \A j \in reached : i <= j]
       ELSE [gameOver |-> FALSE, winnerIndex |-> -1]

\* checkGameOver(players, targetScore)
checkGameOver(players, targetScore) ==
    LET reached == {i \in DOMAIN players : players[i].score >= targetScore}
    IN IF reached # {}
       THEN [gameOver |-> TRUE,
             winnerIndex |-> CHOOSE i \in reached : \A j \in reached : i <= j]
       ELSE [gameOver |-> FALSE, winnerIndex |-> -1]

\* ------------------------------------------------------------- game state
NoWindow == [playerId |-> NoPlayer, expiresAt |-> 0]
NoError == "none"

\* state.lastAction: the type, the acting (or caught) player, the card, the
\* number of cards drawn and the winner; the message text, the names and the
\* echo of the chosen colour are left out
Action(type, playerId, card, count) ==
    [type |-> type, playerId |-> playerId, card |-> card, count |-> count,
     winnerId |-> NoPlayer, roundScores |-> <<>>]
NoAction == Action("none", NoPlayer, NoCard, 0)

\* what a handler returns: { success, state, error } and, for a draw,
\* drawnCards and canPlayDrawn
Result(state, success, error) ==
    [state |-> state, success |-> success, error |-> error,
     drawnCards |-> <<>>, canPlayDrawn |-> FALSE]

\* createGameState(roomCode, lobbyPlayers, targetScore) for n lobby players
createGameState(n, targetScore) ==
    [phase |-> "starting",
     players |-> [i \in 0..(n - 1) |->
                    [id |-> PlayerId(i), hand |-> <<>>, score |-> 0,
                     connected |-> TRUE, calledUno |-> FALSE]],
     currentPlayerIndex |-> 0,
     direction |-> 1,
     discardPile |-> <<>>,
     drawPile |-> <<>>,
     currentColor |-> NoColor,
     stackedDrawCount |-> 0,
     stackType |-> "none",
     skipNextPlayer |-> FALSE,
     awaitingColorChoice |-> FALSE,
     unoCallWindow |-> NoWindow,
     hostId |-> PlayerId(0),
     targetScore |-> targetScore,
     roundNumber |-> 1,
     lastAction |-> NoAction,
     wildColor |-> [c \in WildIds |-> NoColor]]

\* players.findIndex(p => p.id === playerId), -1 when there is none
findIndex(state, playerId) ==
    LET found == {i \in PlayerIdx(state) : state.players[i].id = playerId}
    IN IF found = {} THEN -1 ELSE CHOOSE i \in found : \A j \in found : i <= j

\* hand.findIndex(c => c.id === cardId) as a position 1..Len, 0 when there is none
cardIndexOf(hand, cardId) ==
    LET found == {i \in 1..Len(hand) : hand[i] = cardId}
    IN IF found = {} THEN 0 ELSE CHOOSE i \in found : \A j \in found : i <= j

\* startRound: a fresh deck of new card objects, shuffled with deckSeed; the
\* reshuffles of getStartingCard use startSeeds
startRound(state, deckSeed, startSeeds) ==
    LET deck == shuffle(DeckIds, deckSeed)
        dealt == dealHands(deck, playerCount(state), CardsPerPlayer)
        start == getStartingCard(dealt.remainingDeck, startSeeds)
        s1 == [state EXCEPT
                 !.players = [i \in PlayerIdx(state) |->
                                [state.players[i] EXCEPT !.hand = dealt.hands[i],
                                                         !.calledUno = FALSE]],
                 !.wildColor = [c \in WildIds |-> NoColor],
                 !.drawPile = start.deck,
                 !.discardPile = <<start.startCard>>,
                 !.currentPlayerIndex = 0,
                 !.direction = 1,
                 !.stackedDrawCount = 0,
                 !.stackType = "none",
                 !.skipNextPlayer = FALSE,
                 !.awaitingColorChoice = FALSE,
                 !.unoCallWindow = NoWindow,
                 !.phase = "playing"]
        s2 == applyFirstCardEffect(start.startCard, s1)
    IN [state |-> [s2 EXCEPT !.lastAction =
                      Action("roundStart", NoPlayer, start.startCard, 0)],
        done |-> start.done]

\* endRound(state, winnerIndex)
endRound(state, winnerIndex) ==
    LET s1 == [state EXCEPT !.phase = "roundEnd", !.unoCallWindow = NoWindow]
        winner == s1.players[winnerIndex]
        scores == calculateRoundScores(s1.players, winnerIndex)
        s2 == [s1 EXCEPT !.players = [i \in PlayerIdx(s1) |->
                  [s1.players[i] EXCEPT !.score = scores.newTotalScores[i]]]]
        over == checkGameOver(s2.players, s2.targetScore)
    IN IF over.gameOver
       THEN Result([s2 EXCEPT !.phase = "gameOver",
                              !.lastAction =
                                  [Action("gameOver", NoPlayer, NoCard, 0)
                                     EXCEPT !.winnerId = s2.players[over.winnerIndex].id,
                                            !.roundScores = scores.roundScores]],
                   TRUE, NoError)
       ELSE Result([s2 EXCEPT !.lastAction =
                                  [Action("roundEnd", NoPlayer, NoCard, 0)
                                     EXCEPT !.winnerId = winner.id,
                                            !.roundScores = scores.roundScores]],
                   TRUE, NoError)

\* the wild-without-colour branch that leaves the stack for chooseColor to build
playWildNoColorLateStack(state, playerIndex, card, now) ==
    LET player == state.players[playerIndex]
        s3 == [state EXCEPT !.discardPile = Append(@, card),
                            !.awaitingColorChoice = TRUE,
                            !.lastAction = Action("playCard", player.id, card, 0)]
    IN IF Len(player.hand) = 0
       THEN endRound(s3, playerIndex)
       ELSE IF Len(player.hand) = 1 /\ ~player.calledUno
            THEN Result([s3 EXCEPT !.unoCallWindow =
                            [playerId |-> player.id, expiresAt |-> now + UnoWindowMs]],
                        TRUE, NoError)
            ELSE Result(s3, TRUE, NoError)

\* the wild-without-colour branch without its check for an emptied hand
playWildNoColorNoWin(state, playerIndex, card, now) ==
    LET player == state.players[playerIndex]
        s1 == [state EXCEPT !.discardPile = Append(@, card),
                            !.awaitingColorChoice = TRUE]
        s2 == IF typeOf(card) = "wildDrawFour"
              THEN [s1 EXCEPT !.stackedDrawCount = @ + 4, !.stackType = "drawFour"]
              ELSE s1
        s3 == [s2 EXCEPT !.lastAction = Action("playCard", player.id, card, 0)]
    IN IF Len(player.hand) = 1 /\ ~player.calledUno
       THEN Result([s3 EXCEPT !.unoCallWindow =
                       [playerId |-> player.id, expiresAt |-> now + UnoWindowMs]],
                   TRUE, NoError)
       ELSE Result(s3, TRUE, NoError)

\* the branch of playCard for a wild played without a colour
playWildNoColor(state, playerIndex, card, now) ==
    LET player == state.players[playerIndex]
        s1 == [state EXCEPT !.discardPile = Append(@, card),
                            !.awaitingColorChoice = TRUE]
        s2 == IF typeOf(card) = "wildDrawFour"
              THEN [s1 EXCEPT !.stackedDrawCount = @ + 4, !.stackType = "drawFour"]
              ELSE s1
        s3 == [s2 EXCEPT !.lastAction = Action("playCard", player.id, card, 0)]
    IN IF Len(player.hand) = 0
       THEN endRound(s3, playerIndex)
       ELSE IF Len(player.hand) = 1 /\ ~player.calledUno
            THEN Result([s3 EXCEPT !.unoCallWindow =
                            [playerId |-> player.id, expiresAt |-> now + UnoWindowMs]],
                        TRUE, NoError)
            ELSE Result(s3, TRUE, NoError)

\* the effect branch of playCard without the check for the round win
playWithEffectNoWin(state, playerIndex, card, chosenColor, now) ==
    LET applied == applyCardEffect(card, state, chosenColor)
        s1 == applied.state
        player == s1.players[playerIndex]
    IN IF applied.threw
       THEN Result([s1 EXCEPT !.players[playerIndex].hand = Append(@, card)],
                   FALSE, "Must choose a valid color for wild card")
       ELSE LET s2 == IF Len(player.hand) = 1 /\ ~player.calledUno
                      THEN [s1 EXCEPT !.unoCallWindow =
                              [playerId |-> player.id,
                               expiresAt |-> now + UnoWindowMs]]
                      ELSE [s1 EXCEPT !.unoCallWindow = NoWindow]
                s3 == [s2 EXCEPT !.lastAction =
                         Action("playCard", player.id, card, 0)]
            IN Result(advanceTurn(s3), TRUE, NoError)
\* the effect branch of playCard with a window that expires 3000 ms after
\* time 0 instead of 3000 ms after the play
playWithEffectStaleClock(state, playerIndex, card, chosenColor, now) ==
    LET applied == applyCardEffect(card, state, chosenColor)
        s1 == applied.state
        player == s1.players[playerIndex]
    IN IF applied.threw
       THEN Result([s1 EXCEPT !.players[playerIndex].hand = Append(@, card)],
                   FALSE, "Must choose a valid color for wild card")
       ELSE IF Len(player.hand) = 0
            THEN endRound(s1, playerIndex)
            ELSE LET s2 == IF Len(player.hand) = 1 /\ ~player.calledUno
                           THEN [s1 EXCEPT !.unoCallWindow =
                                   [playerId |-> player.id,
                                    expiresAt |-> UnoWindowMs]]
                           ELSE [s1 EXCEPT !.unoCallWindow = NoWindow]
                     s3 == [s2 EXCEPT !.lastAction =
                              Action("playCard", player.id, card, 0)]
                 IN Result(advanceTurn(s3), TRUE, NoError)

\* the branch of playCard that applies the card's effect at once
playWithEffect(state, playerIndex, card, chosenColor, now) ==
    LET applied == applyCardEffect(card, state, chosenColor)
        s1 == applied.state
        player == s1.players[playerIndex]
    IN IF applied.threw
       THEN Result([s1 EXCEPT !.players[playerIndex].hand = Append(@, card)],
                   FALSE, "Must choose a valid color for wild card")
       ELSE IF Len(player.hand) = 0
            THEN endRound(s1, playerIndex)
            ELSE LET s2 == IF Len(player.hand) = 1 /\ ~player.calledUno
                           THEN [s1 EXCEPT !.unoCallWindow =
                                   [playerId |-> player.id,
                                    expiresAt |-> now + UnoWindowMs]]
                           ELSE [s1 EXCEPT !.unoCallWindow = NoWindow]
                     s3 == [s2 EXCEPT !.lastAction =
                              Action("playCard", player.id, card, 0)]
                 IN Result(advanceTurn(s3), TRUE, NoError)

\* the early returns of playCard without the check of the turn
playCardErrorAnyTurn(state, playerIndex, cardId) ==
    IF playerIndex = -1 THEN "Player not found"
    ELSE IF state.phase # "playing" THEN "Game is not in playing phase"
    ELSE IF state.awaitingColorChoice THEN "Must choose a color first"
    ELSE LET hand == state.players[playerIndex].hand
             cardIndex == cardIndexOf(hand, cardId)
         IN IF cardIndex = 0 THEN "Card not in hand"
            ELSE IF ~canPlayCard(hand[cardIndex], state) THEN "Card cannot be played"
            ELSE NoError

\* the early returns of playCard: the error it rejects with, NoError when the
\* request passes every check
playCardError(state, playerIndex, cardId) ==
    IF playerIndex = -1 THEN "Player not found"
    ELSE IF playerIndex # state.currentPlayerIndex THEN "Not your turn"
    ELSE IF state.phase # "playing" THEN "Game is not in playing phase"
    ELSE IF state.awaitingColorChoice THEN "Must choose a color first"
    ELSE LET hand == state.players[playerIndex].hand
             cardIndex == cardIndexOf(hand, cardId)
         IN IF cardIndex = 0 THEN "Card not in hand"
            ELSE IF ~canPlayCard(hand[cardIndex], state) THEN "Card cannot be played"
            ELSE NoError

\* playCard(state, playerId, cardId, chosenColor) called at time now
playCard(state, playerId, cardId, chosenColor, now) ==
    LET playerIndex == findIndex(state, playerId)
        error == playCardError(state, playerIndex, cardId)
    IN IF error # NoError THEN Result(state, FALSE, error)
       ELSE LET hand == state.players[playerIndex].hand
                cardIndex == cardIndexOf(hand, cardId)
                card == hand[cardIndex]
                s1 == [state EXCEPT !.players[playerIndex].hand = RemoveAt(@, cardIndex)]
            IN IF isWild(card) /\ chosenColor = NoColor
               THEN playWildNoColor(s1, playerIndex, card, now)
               ELSE playWithEffect(s1, playerIndex, card, chosenColor, now)

\* chooseColor without the check of the colour against the four valid ones
chooseColorAnyColor(state, playerId, color) ==
    LET playerIndex == findIndex(state, playerId)
    IN IF playerIndex # state.currentPlayerIndex
       THEN Result(state, FALSE, "Not your turn")
       ELSE IF ~state.awaitingColorChoice
            THEN Result(state, FALSE, "Not awaiting color choice")
       ELSE LET s1 == [state EXCEPT !.currentColor = color,
                                    !.awaitingColorChoice = FALSE]
                topCard == IF s1.discardPile = <<>> THEN NoCard ELSE Last(s1.discardPile)
                s2 == IF topCard # NoCard /\ isWild(topCard)
                      THEN [s1 EXCEPT !.wildColor[topCard] = color]
                      ELSE s1
                player == s2.players[playerIndex]
            IN IF Len(player.hand) = 0
               THEN endRound(s2, playerIndex)
               ELSE Result(advanceTurn([s2 EXCEPT !.lastAction =
                              Action("chooseColor", player.id, NoCard, 0)]),
                           TRUE, NoError)

\* chooseColor(state, playerId, color)
chooseColor(state, playerId, color) ==
    LET playerIndex == findIndex(state, playerId)
    IN IF playerIndex # state.currentPlayerIndex
       THEN Result(state, FALSE, "Not your turn")
       ELSE IF ~state.awaitingColorChoice
            THEN Result(state, FALSE, "Not awaiting color choice")
       ELSE IF color \notin {"red", "yellow", "green", "blue"}
            THEN Result(state, FALSE, "Invalid color")
       ELSE LET s1 == [state EXCEPT !.currentColor = color,
                                    !.awaitingColorChoice = FALSE]
                topCard == IF s1.discardPile = <<>> THEN NoCard ELSE Last(s1.discardPile)
                \* topCard.color = color: only a wild's colour field is mutable
                s2 == IF topCard # NoCard /\ isWild(topCard)
                      THEN [s1 EXCEPT !.wildColor[topCard] = color]
                      ELSE s1
                player == s2.players[playerIndex]
            IN IF Len(player.hand) = 0
               THEN endRound(s2, playerIndex)
               ELSE Result(advanceTurn([s2 EXCEPT !.lastAction =
                              Action("chooseColor", player.id, NoCard, 0)]),
                           TRUE, NoError)

\* playerDrawCards that rejects the draw when the piles can supply no card
playerDrawCardsNeedsCards(state, playerId, seed) ==
    LET playerIndex == findIndex(state, playerId)
    IN IF playerIndex = -1 THEN Result(state, FALSE, "Player not found")
       ELSE IF playerIndex # state.currentPlayerIndex
            THEN Result(state, FALSE, "Not your turn")
       ELSE IF state.phase # "playing"
            THEN Result(state, FALSE, "Game is not in playing phase")
       ELSE IF state.awaitingColorChoice
            THEN Result(state, FALSE, "Must choose a color first")
       ELSE LET drawCount == IF state.stackedDrawCount > 0
                             THEN state.stackedDrawCount ELSE 1
                result == drawCards(state.drawPile, state.discardPile,
                                    state.wildColor, drawCount, seed)
                s1 == [state EXCEPT !.drawPile = result.drawPile,
                                    !.discardPile = result.discardPile,
                                    !.wildColor = result.wildColor]
                drawnCards == result.drawnCards
                s2 == processDrawnCards(s1, playerIndex, drawnCards)
                canPlayDrawn == IF s2.stackedDrawCount = 0 /\ Len(drawnCards) = 1
                                THEN canPlayCard(drawnCards[1], s2)
                                ELSE FALSE
                s3 == IF s2.stackedDrawCount > 0
                      THEN [s2 EXCEPT !.stackedDrawCount = 0, !.stackType = "none"]
                      ELSE s2
                s4 == [s3 EXCEPT !.lastAction =
                         Action("draw", s3.players[playerIndex].id, NoCard,
                                Len(drawnCards))]
                s5 == IF ~canPlayDrawn THEN advanceTurn(s4) ELSE s4
            IN IF drawnCards = <<>>
               THEN Result(state, FALSE, "No cards available")
               ELSE [Result(s5, TRUE, NoError) EXCEPT !.drawnCards = drawnCards,
                                                      !.canPlayDrawn = canPlayDrawn]
\* playerDrawCards(state, playerId); seed is the outcome of a reshuffle
playerDrawCards(state, playerId, seed) ==
    LET playerIndex == findIndex(state, playerId)
    IN IF playerIndex = -1 THEN Result(state, FALSE, "Player not found")
       ELSE IF playerIndex # state.currentPlayerIndex
            THEN Result(state, FALSE, "Not your turn")
       ELSE IF state.phase # "playing"
            THEN Result(state, FALSE, "Game is not in playing phase")
       ELSE IF state.awaitingColorChoice
            THEN Result(state, FALSE, "Must choose a color first")
       ELSE LET drawCount == IF state.stackedDrawCount > 0
                             THEN state.stackedDrawCount ELSE 1
                result == drawCards(state.drawPile, state.discardPile,
                                    state.wildColor, drawCount, seed)
                s1 == [state EXCEPT !.drawPile = result.drawPile,
                                    !.discardPile = result.discardPile,
                                    !.wildColor = result.wildColor]
                drawnCards == result.drawnCards
                s2 == processDrawnCards(s1, playerIndex, drawnCards)
                canPlayDrawn == IF s2.stackedDrawCount = 0 /\ Len(drawnCards) = 1
                                THEN canPlayCard(drawnCards[1], s2)
                                ELSE FALSE
                s3 == IF s2.stackedDrawCount > 0
                      THEN [s2 EXCEPT !.stackedDrawCount = 0, !.stackType = "none"]
                      ELSE s2
                s4 == [s3 EXCEPT !.lastAction =
                         Action("draw", s3.players[playerIndex].id, NoCard,
                                Len(drawnCards))]
                s5 == IF ~canPlayDrawn THEN advanceTurn(s4) ELSE s4
            IN [Result(s5, TRUE, NoError) EXCEPT !.drawnCards = drawnCards,
                                                 !.canPlayDrawn = canPlayDrawn]

\* skipPlayDrawnCard(state, playerId)
skipPlayDrawnCard(state, playerId) ==
    LET playerIndex == findIndex(state, playerId)
    IN IF playerIndex # state.currentPlayerIndex
       THEN Result(state, FALSE, "Not your turn")
       ELSE Result(advanceTurn([state EXCEPT !.lastAction =
                       Action("skipPlay", state.players[playerIndex].id, NoCard, 0)]),
                   TRUE, NoError)

\* callUno without the check of the turn
callUnoAnyTurn(state, playerId) ==
    LET playerIndex == findIndex(state, playerId)
    IN IF playerIndex = -1 THEN Result(state, FALSE, "Player not found")
       ELSE IF Len(state.players[playerIndex].hand) # 2
            THEN Result(state, FALSE, "You can only call UNO when you have 2 cards")
       ELSE Result([state EXCEPT !.players[playerIndex].calledUno = TRUE,
                                 !.lastAction =
                                     Action("callUno", playerId, NoCard, 0)],
                   TRUE, NoError)

\* callUno(state, playerId)
callUno(state, playerId) ==
    LET playerIndex == findIndex(state, playerId)
    IN IF playerIndex = -1 THEN Result(state, FALSE, "Player not found")
       ELSE IF Len(state.players[playerIndex].hand) # 2
            THEN Result(state, FALSE, "You can only call UNO when you have 2 cards")
       ELSE IF playerIndex # state.currentPlayerIndex
            THEN Result(state, FALSE, "You can only call UNO on your turn")
       ELSE Result([state EXCEPT !.players[playerIndex].calledUno = TRUE,
                                 !.lastAction =
                                     Action("callUno", playerId, NoCard, 0)],
                   TRUE, NoError)

\* catchUno that hands the penalty cards to the catcher
catchUnoPenalisesCatcher(state, catcherId, targetId, now, seed) ==
    IF state.unoCallWindow = NoWindow \/ state.unoCallWindow.playerId # targetId
    THEN Result(state, FALSE, "Cannot catch this player")
    ELSE IF now > state.unoCallWindow.expiresAt
         THEN Result([state EXCEPT !.unoCallWindow = NoWindow], FALSE,
                     "Catch window has expired")
    ELSE LET target == findIndex(state, targetId)
             catcher == findIndex(state, catcherId)
         IN IF target = -1 \/ catcher = -1
            THEN Result(state, FALSE, "Player not found")
            ELSE LET result == drawCards(state.drawPile, state.discardPile,
                                         state.wildColor, 4, seed)
                 IN Result([state EXCEPT
                               !.drawPile = result.drawPile,
                               !.discardPile = result.discardPile,
                               !.wildColor = result.wildColor,
                               !.players[catcher].hand = @ \o result.drawnCards,
                               !.unoCallWindow = NoWindow,
                               !.lastAction =
                                   Action("caughtUno", targetId, NoCard,
                                          Len(result.drawnCards))],
                           TRUE, NoError)

\* catchUno that leaves an expired window in place
catchUnoKeepsExpiredWindow(state, catcherId, targetId, now, seed) ==
    IF state.unoCallWindow = NoWindow \/ state.unoCallWindow.playerId # targetId
    THEN Result(state, FALSE, "Cannot catch this player")
    ELSE IF now > state.unoCallWindow.expiresAt
         THEN Result(state, FALSE, "Catch window has expired")
    ELSE LET target == findIndex(state, targetId)
             catcher == findIndex(state, catcherId)
         IN IF target = -1 \/ catcher = -1
            THEN Result(state, FALSE, "Player not found")
            ELSE LET result == drawCards(state.drawPile, state.discardPile,
                                         state.wildColor, 4, seed)
                 IN Result([state EXCEPT
                               !.drawPile = result.drawPile,
                               !.discardPile = result.discardPile,
                               !.wildColor = result.wildColor,
                               !.players[target].hand = @ \o result.drawnCards,
                               !.unoCallWindow = NoWindow,
                               !.lastAction =
                                   Action("caughtUno", targetId, NoCard,
                                          Len(result.drawnCards))],
                           TRUE, NoError)

\* catchUno(state, catcherId, targetId) called at time now
catchUno(state, catcherId, targetId, now, seed) ==
    IF state.unoCallWindow = NoWindow \/ state.unoCallWindow.playerId # targetId
    THEN Result(state, FALSE, "Cannot catch this player")
    ELSE IF now > state.unoCallWindow.expiresAt
         THEN Result([state EXCEPT !.unoCallWindow = NoWindow], FALSE,
                     "Catch window has expired")
    ELSE LET target == findIndex(state, targetId)
             catcher == findIndex(state, catcherId)
         IN IF target = -1 \/ catcher = -1
            THEN Result(state, FALSE, "Player not found")
            ELSE LET result == drawCards(state.drawPile, state.discardPile,
                                         state.wildColor, 4, seed)
                 IN Result([state EXCEPT
                               !.drawPile = result.drawPile,
                               !.discardPile = result.discardPile,
                               !.wildColor = result.wildColor,
                               !.players[target].hand = @ \o result.drawnCards,
                               !.unoCallWindow = NoWindow,
                               !.lastAction =
                                   Action("caughtUno", targetId, NoCard,
                                          Len(result.drawnCards))],
                           TRUE, NoError)

\* startNextRound without the check of the phase
startNextRoundAnyPhase(state, deckSeed, startSeeds) ==
    startRound([state EXCEPT !.roundNumber = @ + 1], deckSeed, startSeeds)
\* startNextRound(state)
startNextRound(state, deckSeed, startSeeds) ==
    IF state.phase # "roundEnd"
    THEN [state |-> state, done |-> TRUE]
    ELSE startRound([state EXCEPT !.roundNumber = @ + 1], deckSeed, startSeeds)

\* handleDisconnect that also returns the player's hand to the draw pile
handleDisconnectFoldsHand(state, playerId) ==
    LET i == findIndex(state, playerId)
    IN IF i = -1 THEN state
       ELSE [state EXCEPT !.players[i].connected = FALSE,
                          !.drawPile = state.players[i].hand \o @,
                          !.players[i].hand = <<>>]

\* handleDisconnect(state, playerId)
handleDisconnect(state, playerId) ==
    LET i == findIndex(state, playerId)
    IN IF i = -1 THEN state
       ELSE [state EXCEPT !.players[i].connected = FALSE]

\* handleReconnect(state, oldPlayerId, newPlayerId)
handleReconnect(state, oldPlayerId, newPlayerId) ==
    LET i == findIndex(state, oldPlayerId)
    IN IF i = -1 THEN state
       ELSE [state EXCEPT !.players[i].id = newPlayerId,
                          !.players[i].connected = TRUE]

\* LobbyManager.handleReconnect: what it does to lobby.gameState
lobbyHandleReconnect(state, oldPlayerId, newPlayerId) ==
    LET i == findIndex(state, oldPlayerId)
        s1 == IF i = -1 THEN state
              ELSE [state EXCEPT !.players[i].id = newPlayerId,
                                 !.players[i].connected = TRUE]
    IN IF s1.hostId = oldPlayerId
       THEN [s1 EXCEPT !.hostId = newPlayerId]
       ELSE s1

\* Card.toJSON of card c
cardJSON(state, c) ==
    [id |-> c, type |-> typeOf(c), color |-> colorOf(state.wildColor, c),
     value |-> valueOf(c)]

\* getStateForPlayer: the spread of the state with drawPile and players
\* replaced and topCard added; the cards of discardPile and lastAction are
\* the card objects, an absent hand is <<"undefined">>, and names are left out
getStateForPlayer(state, playerId) ==
    [phase |-> state.phase,
     currentPlayerIndex |-> state.currentPlayerIndex,
     direction |-> state.direction,
     discardPile |-> [k \in 1..Len(state.discardPile) |->
                        cardJSON(state, state.discardPile[k])],
     currentColor |-> state.currentColor,
     stackedDrawCount |-> state.stackedDrawCount,
     stackType |-> state.stackType,
     skipNextPlayer |-> state.skipNextPlayer,
     awaitingColorChoice |-> state.awaitingColorChoice,
     unoCallWindow |-> state.unoCallWindow,
     hostId |-> state.hostId,
     targetScore |-> state.targetScore,
     roundNumber |-> state.roundNumber,
     lastAction |-> state.lastAction,
     drawPile |-> [count |-> Len(state.drawPile)],
     players |-> [i \in PlayerIdx(state) |->
                    LET p == state.players[i]
                    IN [id |-> p.id,
                        cardCount |-> Len(p.hand),
                        score |-> p.score,
                        connected |-> p.connected,
                        calledUno |-> p.calledUno,
                        hand |-> IF p.id = playerId
                                 THEN <<"hand", [k \in 1..Len(p.hand) |->
                                                   cardJSON(state, p.hand[k])]>>
                                 ELSE <<"undefined">>,
                        isCurrentPlayer |-> i = state.currentPlayerIndex]],
     topCard |-> IF Len(state.discardPile) > 0
                 THEN <<cardJSON(state, Last(state.discardPile))>>
                 ELSE <<>>]

\* ---------------------------------------------------------- lobby manager
\* Room codes generateRoomCode may return, the ids of the sockets that may
\* connect, and the name a socket's user gives: sockets 10 and 20 belong to
\* the same user, who comes back on a new socket.
Rooms == {"AAAA", "BBBB"}
NoRoom == "none"
SocketIds == {10, 11, 20}
NameOf(socketId) == socketId % 10
Names == {NameOf(s) : s \in SocketIds}

NoGame == [phase |-> "null"]
NoLobby == [roomCode |-> NoRoom]

\* new LobbyManager(), and no socket open or closed yet
NoLobbies ==
    [lobbies |-> [r \in Rooms |-> NoLobby],
     playerRooms |-> [s \in SocketIds |-> NoRoom],
     disconnectedPlayers |-> [k \in Names \X Rooms |-> NoPlayer],
     open |-> {},
     closed |-> {}]

\* createGameState(roomCode, lobbyPlayers, targetScore)
createGameStateFor(lobbyPlayers, targetScore) ==
    [createGameState(Len(lobbyPlayers), targetScore) EXCEPT
        !.players = [i \in 0..(Len(lobbyPlayers) - 1) |->
                        [@[i] EXCEPT !.id = lobbyPlayers[i + 1].id]],
        !.hostId = lobbyPlayers[1].id]

\* lobby.players.findIndex(p => p.id === playerId) as a position, 0 for none
lobbyIndexOf(lobby, playerId) ==
    LET found == {i \in 1..Len(lobby.players) : lobby.players[i].id = playerId}
    IN IF found = {} THEN 0 ELSE CHOOSE i \in found : \A j \in found : i <= j

\* getLobbyByPlayer(playerId)
getLobbyByPlayer(m, playerId) ==
    IF m.playerRooms[playerId] = NoRoom THEN NoLobby
    ELSE m.lobbies[m.playerRooms[playerId]]

\* createLobby(hostId, hostName) with the room code generateRoomCode returned
createLobby(m, roomCode, hostId, hostName, now) ==
    [m EXCEPT
        !.lobbies[roomCode] =
            [roomCode |-> roomCode,
             hostId |-> hostId,
             players |-> <<[id |-> hostId, name |-> hostName, connected |-> TRUE]>>,
             gameState |-> NoGame,
             createdAt |-> now,
             status |-> "waiting"],
        !.playerRooms[hostId] = roomCode]

\* LobbyManager.handleReconnect(roomCode, oldPlayerId, newPlayerId, playerName)
managerHandleReconnect(m, roomCode, oldPlayerId, newPlayerId, playerName) ==
    LET lobby == m.lobbies[roomCode]
        i == IF lobby = NoLobby THEN 0 ELSE lobbyIndexOf(lobby, oldPlayerId)
    IN IF lobby = NoLobby \/ i = 0 THEN m
       ELSE [m EXCEPT
               !.lobbies[roomCode] =
                   [lobby EXCEPT
                      !.players[i].id = newPlayerId,
                      !.players[i].connected = TRUE,
                      !.hostId = IF @ = oldPlayerId THEN newPlayerId ELSE @,
                      !.gameState =
                          IF @ = NoGame THEN @
                          ELSE lobbyHandleReconnect(@, oldPlayerId, newPlayerId)],
               !.playerRooms = [@ EXCEPT ![oldPlayerId] = NoRoom,
                                         ![newPlayerId] = roomCode],
               !.disconnectedPlayers[<<playerName, roomCode>>] = NoPlayer]

\* joinLobby(roomCode, playerId, playerName)
joinLobby(m, roomCode, playerId, playerName) ==
    LET lobby == m.lobbies[roomCode]
    IN IF lobby = NoLobby THEN m
       ELSE IF lobby.status # "waiting"
       THEN LET oldPlayerId == m.disconnectedPlayers[<<playerName, roomCode>>]
            IN IF oldPlayerId # NoPlayer
               THEN managerHandleReconnect(m, roomCode, oldPlayerId, playerId,
                                           playerName)
               ELSE m
       ELSE IF Len(lobby.players) >= 10 THEN m
       ELSE IF \E i \in 1..Len(lobby.players) : lobby.players[i].name = playerName
       THEN m
       ELSE [m EXCEPT
               !.lobbies[roomCode].players =
                   Append(@, [id |-> playerId, name |-> playerName,
                              connected |-> TRUE]),
               !.playerRooms[playerId] = roomCode]

\* leaveLobby(playerId): the manager afterwards, the lobby returned (its
\* room code, NoRoom for null) and roomDeleted
leaveLobby(m, playerId) ==
    LET roomCode == m.playerRooms[playerId]
        lobby == IF roomCode = NoRoom THEN NoLobby ELSE m.lobbies[roomCode]
        playerIndex == IF lobby = NoLobby THEN 0 ELSE lobbyIndexOf(lobby, playerId)
    IN IF roomCode = NoRoom
       THEN [m |-> m, lobby |-> NoRoom, roomDeleted |-> FALSE]
       ELSE IF lobby = NoLobby
       THEN [m |-> [m EXCEPT !.playerRooms[playerId] = NoRoom],
             lobby |-> NoRoom, roomDeleted |-> FALSE]
       ELSE IF playerIndex = 0
       THEN [m |-> m, lobby |-> NoRoom, roomDeleted |-> FALSE]
       ELSE IF lobby.status = "playing"
       THEN [m |-> [m EXCEPT
                      !.lobbies[roomCode].players[playerIndex].connected = FALSE,
                      !.disconnectedPlayers[<<lobby.players[playerIndex].name,
                                              roomCode>>] = playerId],
             lobby |-> roomCode, roomDeleted |-> FALSE]
       ELSE LET players == RemoveAt(lobby.players, playerIndex)
                m1 == [m EXCEPT !.playerRooms[playerId] = NoRoom]
            IN IF players = <<>>
               THEN [m |-> [m1 EXCEPT !.lobbies[roomCode] = NoLobby],
                     lobby |-> NoRoom, roomDeleted |-> TRUE]
               ELSE [m |-> [m1 EXCEPT
                              !.lobbies[roomCode].players = players,
                              !.lobbies[roomCode].hostId =
                                  IF @ = playerId THEN players[1].id ELSE @],
                     lobby |-> roomCode, roomDeleted |-> FALSE]

\* startGame(roomCode, requesterId): success and the manager afterwards
startGame(m, roomCode, requesterId) ==
    LET lobby == m.lobbies[roomCode]
    IN IF \/ lobby = NoLobby
          \/ lobby.hostId # requesterId
          \/ Len(lobby.players) < 2
          \/ lobby.status # "waiting"
       THEN [success |-> FALSE, m |-> m]
       ELSE [success |-> TRUE, m |-> [m EXCEPT !.lobbies[roomCode].status = "playing"]]

\* setGameState(roomCode, gameState)
setGameState(m, roomCode, gameState) ==
    IF m.lobbies[roomCode] = NoLobby THEN m
    ELSE [m EXCEPT !.lobbies[roomCode].gameState = gameState]

\* endGame(roomCode)
endGame(m, roomCode) ==
    IF m.lobbies[roomCode] = NoLobby THEN m
    ELSE [m EXCEPT !.lobbies[roomCode].status = "waiting",
                   !.lobbies[roomCode].gameState = NoGame]

\* the lobbies cleanup removes at time now
expired(m, maxAgeMs, now) ==
    {r \in Rooms : /\ m.lobbies[r] # NoLobby
                   /\ now - m.lobbies[r].createdAt > maxAgeMs
                   /\ m.lobbies[r].status # "playing"}

\* cleanup that removes a lobby of any status
cleanupAnyStatus(m, maxAgeMs, now) ==
    LET gone == {r \in Rooms : /\ m.lobbies[r] # NoLobby
                               /\ now - m.lobbies[r].createdAt > maxAgeMs}
        ids == UNION {{m.lobbies[r].players[i].id :
                          i \in 1..Len(m.lobbies[r].players)} : r \in gone}
    IN [m EXCEPT
          !.lobbies = [r \in Rooms |-> IF r \in gone THEN NoLobby ELSE @[r]],
          !.playerRooms = [s \in SocketIds |-> IF s \in ids THEN NoRoom ELSE @[s]]]

\* cleanup(maxAgeMs) at time now
cleanup(m, maxAgeMs, now) ==
    LET gone == expired(m, maxAgeMs, now)
        ids == UNION {{m.lobbies[r].players[i].id :
                          i \in 1..Len(m.lobbies[r].players)} : r \in gone}
    IN [m EXCEPT
          !.lobbies = [r \in Rooms |-> IF r \in gone THEN NoLobby ELSE @[r]],
          !.playerRooms = [s \in SocketIds |-> IF s \in ids THEN NoRoom ELSE @[s]]]

\* ------------------------------------------------------------ the system
\* state:  the game state object of one room
\* result: the request being answered (the handler called, its arguments and
\*         what it returned), Idle once the callback has been sent; the server
\*         handles one request at a time
\* now:    Date.now()
\* steps:  calls so far that changed the game state
\* probe:  the last application of a pure function (its inputs and its
\*         output), used by the specifications of the rules and the scoring
\* lobbyManager: the LobbyManager object of server.js and the sockets that
\*         are open or were closed; the specifications of a single room
\*         leave it as constructed
VARIABLES state, result, now, steps, probe, lobbyManager
vars == <<state, result, now, steps, probe, lobbyManager>>

NoProbe == [fn |-> "none"]

Request(op, playerId, cardId, color, targetId) ==
    [op |-> op, playerId |-> playerId, cardId |-> cardId, color |-> color,
     targetId |-> targetId, success |-> TRUE, error |-> NoError,
     drawnCards |-> <<>>, canPlayDrawn |-> FALSE]
Idle == Request("idle", NoPlayer, NoCard, NoColor, NoPlayer)

\* the ids a request may carry: every player's socket id and a stranger's
PlayerInputs == {state.players[i].id : i \in PlayerIdx(state)} \cup {UnknownId}
\* the card ids a player may send: the cards held and one card not held
CardInputs(playerId) ==
    LET i == findIndex(state, playerId)
    IN (IF i = -1 THEN {} ELSE Range(state.players[i].hand))
       \cup (IF state.discardPile = <<>> THEN {} ELSE {Last(state.discardPile)})
StartSeeds == {<<s>> : s \in Seeds}
\* the colours sent with a card: any for a wild; for another card, whose
\* colour argument playCard never reads, none or a stray string
ColorInputsFor(cardId) == IF isWild(cardId) THEN ColorInputs ELSE {NoColor, "purple"}
\* the reshuffle outcomes that matter to a draw of count cards: one when the
\* draw pile holds enough cards, so that no reshuffle happens
DrawSeeds(count) == IF Len(state.drawPile) >= count THEN {1} ELSE Seeds

\* a handler ran on the request req and returned r
Handled(req, r) ==
    /\ result = Idle
    /\ (r.state # state) => steps < MaxSteps
    /\ state' = r.state
    /\ result' = [req EXCEPT !.success = r.success, !.error = r.error,
                             !.drawnCards = r.drawnCards,
                             !.canPlayDrawn = r.canPlayDrawn]
    /\ steps' = IF r.state # state THEN steps + 1 ELSE steps
    /\ UNCHANGED <<now, probe, lobbyManager>>

Init ==
    /\ \E n \in PlayerCounts : state = createGameState(n, TargetScore)
    /\ result = Idle
    /\ now = 0
    /\ steps = 0
    /\ probe = NoProbe
    /\ lobbyManager = NoLobbies

\* server.js 'startGame': startRound right after createGameState
StartRound ==
    /\ result = Idle
    /\ state.phase = "starting"
    /\ \E deckSeed \in Seeds, startSeeds \in StartSeeds :
         LET r == startRound(state, deckSeed, startSeeds)
         IN /\ r.done
            /\ state' = r.state
    /\ result' = Request("startRound", NoPlayer, NoCard, NoColor, NoPlayer)
    /\ UNCHANGED <<now, steps, probe, lobbyManager>>

PlayCard ==
    \E playerId \in PlayerInputs :
      \E cardId \in CardInputs(playerId) :
       \E chosenColor \in ColorInputsFor(cardId) :
        Handled(Request("playCard", playerId, cardId, chosenColor, NoPlayer),
                playCard(state, playerId, cardId, chosenColor, now))

ChooseColor ==
    \E playerId \in PlayerInputs, color \in ColorInputs :
        Handled(Request("chooseColor", playerId, NoCard, color, NoPlayer),
                chooseColor(state, playerId, color))

PlayerDrawCards ==
    \E playerId \in PlayerInputs,
       seed \in DrawSeeds(IF state.stackedDrawCount > 0 THEN state.stackedDrawCount ELSE 1) :
        Handled(Request("playerDrawCards", playerId, NoCard, NoColor, NoPlayer),
                playerDrawCards(state, playerId, seed))

SkipPlayDrawnCard ==
    \E playerId \in PlayerInputs :
        Handled(Request("skipPlayDrawnCard", playerId, NoCard, NoColor, NoPlayer),
                skipPlayDrawnCard(state, playerId))

CallUno ==
    \E playerId \in PlayerInputs :
        Handled(Request("callUno", playerId, NoCard, NoColor, NoPlayer),
                callUno(state, playerId))

CatchUno ==
    \E catcherId \in PlayerInputs, targetId \in PlayerInputs, seed \in DrawSeeds(4) :
        Handled(Request("catchUno", catcherId, NoCard, NoColor, targetId),
                catchUno(state, catcherId, targetId, now, seed))

\* server.js 'nextRound'
StartNextRound ==
    /\ result = Idle
    /\ state.phase # "starting"
    /\ state.roundNumber < MaxRounds
    /\ \E deckSeed \in Seeds, startSeeds \in StartSeeds :
         LET r == startNextRound(state, deckSeed, startSeeds)
         IN /\ r.done
            /\ state' = r.state
    /\ result' = Request("startNextRound", NoPlayer, NoCard, NoColor, NoPlayer)
    /\ UNCHANGED <<now, steps, probe, lobbyManager>>

\* the callback has been sent: the server is ready for the next request
Respond ==
    /\ result # Idle
    /\ result' = Idle
    /\ UNCHANGED <<state, now, steps, probe, lobbyManager>>

\* time passes while a catch window is open
Tick ==
    /\ result = Idle
    /\ state.unoCallWindow # NoWindow
    /\ now + UnoWindowMs <= MaxNow
    /\ now' = now + UnoWindowMs
    /\ UNCHANGED <<state, result, steps, probe, lobbyManager>>

Next ==
    \/ StartRound
    \/ PlayCard
    \/ ChooseColor
    \/ PlayerDrawCards
    \/ SkipPlayDrawnCard
    \/ CallUno
    \/ CatchUno
    \/ StartNextRound
    \/ Respond
    \/ Tick

Spec == Init /\ [][Next]_vars

\* ------------------------------------------------------------- properties
HandlerOps == {"playCard", "chooseColor", "playerDrawCards", "skipPlayDrawnCard",
               "callUno", "catchUno"}
HandOf(i) == state.players[i].hand
\* every place of the state that holds cards, as one sequence
RECURSIVE HandsFrom(_, _)
HandsFrom(s, i) ==
    IF i \notin DOMAIN s.players THEN <<>> ELSE s.players[i].hand \o HandsFrom(s, i + 1)
CardsHeld(s) == s.drawPile \o s.discardPile \o HandsFrom(s, 0)
Occurrences(seq, c) == Cardinality({k \in 1..Len(seq) : seq[k] = c})
Ended(s) == s.phase \in {"roundEnd", "gameOver"}
Scores(s) == [i \in DOMAIN s.players |-> s.players[i].score]

\* C1: once a round has started, every card of the deck is in exactly one of
\* the draw pile, the discard pile and the hands, so the sizes add up to the
\* size of the deck.
C1_CardConservation ==
    state.phase # "starting" =>
        /\ Len(CardsHeld(state)) = NumCards
        /\ \A c \in CardIds : Occurrences(CardsHeld(state), c) = 1

\* C2: a rejected playCard, chooseColor, playerDrawCards, skipPlayDrawnCard
\* or callUno leaves the game state exactly as it was.
C2_RejectionsChangeNothing ==
    [][(/\ result'.op \in HandlerOps \ {"catchUno"}
        /\ result # result'
        /\ ~result'.success) => state' = state]_vars

\* C3: playCard is accepted only from the current player, in phase playing,
\* when no colour is awaited, for a card in the caller's hand that canPlayCard
\* accepts; then exactly that card leaves the caller's hand and becomes the top
\* of the discard pile.  Whenever a card is put on the discard pile during a
\* round, it is by a playCard request of the player whose turn it is.
C3_PlayGuard ==
    (result'.op = "playCard" /\ result # result' /\ result'.success) =>
        \E i \in PlayerIdx(state) :
            /\ state.players[i].id = result'.playerId
            /\ i = state.currentPlayerIndex
            /\ state.phase = "playing"
            /\ ~state.awaitingColorChoice
            /\ \E k \in 1..Len(HandOf(i)) :
                 /\ HandOf(i)[k] = result'.cardId
                 /\ state'.players[i].hand = RemoveAt(HandOf(i), k)
            /\ canPlayCard(result'.cardId, state)
            /\ state'.discardPile = Append(state.discardPile, result'.cardId)
            /\ \A j \in PlayerIdx(state) \ {i} :
                 state'.players[j].hand = state.players[j].hand
C3_OnlyTheCurrentPlayerPlays ==
    (/\ state.phase # "starting"
     /\ \E c \in CardIds : state'.discardPile = Append(state.discardPile, c)) =>
        /\ result'.op = "playCard"
        /\ result # result'
        /\ result'.playerId = state.players[state.currentPlayerIndex].id
C3_PlayCardAcceptedOnlyFromCurrentPlayer ==
    [][C3_PlayGuard /\ C3_OnlyTheCurrentPlayerPlays]_vars
\* an accepted play of a card that left the hand for the discard pile
C3_Witness ==
    /\ result.op = "playCard"
    /\ result.success
    /\ Last(state.discardPile) = result.cardId
    /\ state.phase = "playing"

\* --------------------------------------------- canPlayCard on its own
\* The states canPlayCard is asked about: a top card, the colour in force (the
\* top card's own colour, or the colour chosen for a wild), and either no
\* stack or a stack whose top card is one of the cards that can lie on it.
StackInputs(top) ==
    {<<0, "none">>}
    \cup (IF typeOf(top) \in {"drawTwo", "skip", "reverse"}
          THEN {<<2, "drawTwo">>, <<4, "drawTwo">>} ELSE {})
    \cup (IF typeOf(top) \in {"wildDrawFour", "skip", "reverse"}
          THEN {<<4, "drawFour">>} ELSE {})
TableState(top, color, stack) ==
    [createGameState(2, TargetScore) EXCEPT
        !.phase = "playing",
        !.discardPile = <<top>>,
        !.currentColor = color,
        !.wildColor = [c \in WildIds |-> IF c = top THEN color ELSE NoColor],
        !.stackedDrawCount = stack[1],
        !.stackType = stack[2]]
InitCanPlay ==
    /\ \E top \in CardIds :
        \E color \in (IF isWild(top) THEN ColorSet ELSE {createDeck[top].color}) :
         \E stack \in StackInputs(top) :
            state = TableState(top, color, stack)
    /\ result = Idle
    /\ now = 0
    /\ steps = 0
    /\ probe = NoProbe
    /\ lobbyManager = NoLobbies
AskCanPlay ==
    /\ probe = NoProbe
    /\ \E card \in CardIds \ {Last(state.discardPile)} :
         probe' = [fn |-> "canPlayCard", card |-> card,
                   canPlay |-> canPlayCard(card, state)]
    /\ UNCHANGED <<state, result, now, steps, lobbyManager>>
NextCanPlay == AskCanPlay
SpecCanPlay == InitCanPlay /\ [][NextCanPlay]_vars

\* the rule of play as the rulebook states it
Legal(card, s) ==
    LET kind == createDeck[card].type
        top == createDeck[Last(s.discardPile)]
    IN IF s.stackedDrawCount > 0
       THEN \/ kind = "drawTwo" /\ s.stackType = "drawTwo"
            \/ kind = "wildDrawFour" /\ s.stackType = "drawFour"
            \/ kind \in {"reverse", "skip"}
       ELSE \/ kind \in {"wild", "wildDrawFour"}
            \/ createDeck[card].color = s.currentColor
            \/ kind = "number" /\ top.type = "number"
                 /\ createDeck[card].value = top.value
            \/ kind # "number" /\ kind = top.type

\* C4: canPlayCard follows the precedence stack, then wild, then colour /
\* value / kind: with a stack only a DrawTwo on a drawTwo stack, a
\* WildDrawFour on a drawFour stack, a Reverse or a Skip is legal; without a
\* stack every wild is legal and any other card is legal exactly when it
\* matches the current colour, the top number's value or the top card's kind.
C4_CanPlayCardIsTheReference ==
    probe.fn = "canPlayCard" => (probe.canPlay <=> Legal(probe.card, state))
\* a plain wild refused on a stack, and a Skip of the other colour let through
C4_Witness ==
    /\ probe.fn = "canPlayCard"
    /\ state.stackedDrawCount > 0
    /\ \/ typeOf(probe.card) = "wild" /\ ~probe.canPlay
       \/ /\ typeOf(probe.card) = "skip"
          /\ createDeck[probe.card].color # state.currentColor
          /\ probe.canPlay

\* C5: while a colour is awaited, every playCard, playerDrawCards and
\* skipPlayDrawnCard is rejected, and the turn stays where it is until the
\* chooseColor of the current player succeeds.
C5_AwaitingColorBlocksTheTurn ==
    [][(/\ state.phase = "playing"
        /\ state.awaitingColorChoice
        /\ result # result'
        /\ result'.op \in HandlerOps) =>
          /\ result'.op \in {"playCard", "playerDrawCards", "skipPlayDrawnCard"}
                => ~result'.success
          /\ state'.currentPlayerIndex # state.currentPlayerIndex
                => /\ result'.op = "chooseColor"
                   /\ result'.success
                   /\ result'.playerId = state.players[state.currentPlayerIndex].id]_vars

\* C6: the phase moves only starting -> playing, playing -> roundEnd,
\* playing -> gameOver and roundEnd -> playing; in roundEnd and gameOver no
\* request of a player changes the phase or the turn.
PhaseMoves ==
    {<<"starting", "playing">>, <<"playing", "roundEnd">>,
     <<"playing", "gameOver">>, <<"roundEnd", "playing">>}
C6_PhaseMachine ==
    [][/\ state'.phase # state.phase => <<state.phase, state'.phase>> \in PhaseMoves
       /\ (Ended(state) /\ result # result' /\ result'.op \in HandlerOps) =>
             /\ state'.phase = state.phase
             /\ state'.currentPlayerIndex = state.currentPlayerIndex]_vars

\* C7: an accepted playCard that takes the last card of the hand ends the
\* round in that step: the phase becomes roundEnd or gameOver, the turn is
\* not advanced, the player is credited with the points of the other hands
\* and the catch window is cleared.
OthersPoints(s, w) ==
    LET held == {<<j, k>> \in PlayerIdx(s) \X (1..NumCards) :
                    j # w /\ k <= Len(s.players[j].hand)}
        RECURSIVE Total(_)
        Total(S) == IF S = {} THEN 0
                    ELSE LET x == CHOOSE y \in S : TRUE
                             c == createDeck[s.players[x[1]].hand[x[2]]]
                         IN (IF c.type = "number" THEN c.value
                             ELSE IF c.type \in {"wild", "wildDrawFour"} THEN 50
                             ELSE 20) + Total(S \ {x})
    IN Total(held)
C7_LastCardEndsTheRound ==
    [][(/\ result'.op = "playCard"
        /\ result # result'
        /\ result'.success
        /\ Len(HandOf(state.currentPlayerIndex)) = 1) =>
          LET w == state.currentPlayerIndex
          IN /\ state'.players[w].hand = <<>>
             /\ Ended(state')
             /\ state'.currentPlayerIndex = w
             /\ state'.unoCallWindow = NoWindow
             /\ state'.lastAction.winnerId = state.players[w].id
             /\ Scores(state') =
                  [j \in PlayerIdx(state) |->
                     state.players[j].score
                       + (IF j = w THEN OthersPoints(state, w) ELSE 0)]]_vars
\* a round won by a wild played without a colour, with points to collect
C7_Witness ==
    /\ result.op = "playCard"
    /\ result.success
    /\ isWild(result.cardId)
    /\ result.color = NoColor
    /\ Ended(state)
    /\ state.awaitingColorChoice
    /\ state.players[state.currentPlayerIndex].hand = <<>>
    /\ state.players[state.currentPlayerIndex].score > 0

\* --------------------------------------- calculateRoundScores on its own
\* The players endRound scores: the winner (whose turn it is) holds nothing,
\* every other player holds one card or two, no card twice, and the scores
\* carried over from earlier rounds are below the target.
ScoreInputs == {0, TargetScore - 25}
HandInputs ==
    {<<c>> : c \in CardIds} \cup {<<c, c + 1>> : c \in 1..(NumCards - 1)}
NoCardTwice(hands) ==
    \A i, j \in DOMAIN hands :
        i # j => Range(hands[i]) \cap Range(hands[j]) = {}
InitScoring ==
    /\ \E n \in PlayerCounts, own \in ScoreInputs, other \in ScoreInputs :
        \E w \in 0..(n - 1), hands \in [0..(n - 1) -> HandInputs \cup {<<>>}] :
            /\ \A i \in 0..(n - 1) : (hands[i] = <<>>) <=> (i = w)
            /\ NoCardTwice(hands)
            /\ state = [createGameState(n, TargetScore) EXCEPT
                          !.phase = "playing",
                          !.currentPlayerIndex = w,
                          !.players = [i \in 0..(n - 1) |->
                              [@[i] EXCEPT !.hand = hands[i],
                                           !.score = IF i = w THEN own ELSE other]]]
    /\ result = Idle
    /\ now = 0
    /\ steps = 0
    /\ probe = NoProbe
    /\ lobbyManager = NoLobbies
AskScoring ==
    /\ probe = NoProbe
    /\ probe' = [fn |-> "calculateRoundScores",
                 scores |-> calculateRoundScores(state.players,
                                                 state.currentPlayerIndex)]
    /\ UNCHANGED <<state, result, now, steps, lobbyManager>>
NextScoring == AskScoring
SpecScoring == InitScoring /\ [][NextScoring]_vars

\* C8: calculateRoundScores gives the winner the points of every other
\* player's hand (a number its face value, Skip / Reverse / DrawTwo 20, a
\* wild 50), gives everybody else 0, and returns as new totals the old
\* cumulative scores plus the round scores.
C8_RoundScores ==
    probe.fn = "calculateRoundScores" =>
        LET w == state.currentPlayerIndex
        IN /\ probe.scores.roundScores[w] = OthersPoints(state, w)
           /\ \A j \in PlayerIdx(state) \ {w} : probe.scores.roundScores[j] = 0
           /\ \A j \in PlayerIdx(state) :
                 probe.scores.newTotalScores[j] =
                     state.players[j].score + probe.scores.roundScores[j]
\* three players, points on both losing hands, a winner with an old score
C8_Witness ==
    /\ probe.fn = "calculateRoundScores"
    /\ playerCount(state) = 3
    /\ state.players[state.currentPlayerIndex].score > 0
    /\ \A j \in PlayerIdx(state) \ {state.currentPlayerIndex} :
          calculateHandValue(state.players[j].hand) > 0
    /\ probe.scores.roundScores[state.currentPlayerIndex] > 20

\* C9: a round is scored once: when the phase is roundEnd or gameOver, no
\* playCard, chooseColor, playerDrawCards, skipPlayDrawnCard, callUno or
\* catchUno changes a score.
C9_PointsAwardedOnce ==
    [][(Ended(state) /\ result # result' /\ result'.op \in HandlerOps) =>
          Scores(state') = Scores(state)]_vars

\* C10: the phase is gameOver exactly when a cumulative score has reached
\* targetScore (after a round end it is roundEnd otherwise); the declared
\* winner is the lowest-index player at or above the target, who is the
\* winner of the round just ended; at most one player is at or above it.
AtTarget(s) == {i \in PlayerIdx(s) : s.players[i].score >= s.targetScore}
C10_GameOverAtTarget ==
    /\ (state.phase = "gameOver") <=> (AtTarget(state) # {})
    /\ Cardinality(AtTarget(state)) <= 1
    /\ state.lastAction.type = "roundEnd" => state.phase # "gameOver"
    /\ state.lastAction.type = "gameOver" =>
          \E i \in AtTarget(state) :
             /\ \A j \in AtTarget(state) : i <= j
             /\ state.lastAction.winnerId = state.players[i].id
             /\ state.players[i].hand = <<>>
             /\ i = state.currentPlayerIndex
\* a game that ended with the winner exactly at the target
C10_Witness ==
    /\ state.phase = "gameOver"
    /\ state.lastAction.type = "gameOver"
    /\ \E i \in PlayerIdx(state) : state.players[i].score = state.targetScore

\* ------------------------------------------------ draws late in a round
\* A table late in a round: the draw pile is down to TablePile cards or fewer,
\* the discard pile is the top card with at most one card under it, and the
\* players hold everything else.  A stack is active only on a card that makes
\* or passes one: a DrawTwo or WildDrawFour just played, or a Skip / Reverse
\* played on one.
TablePile == 0..2
TableUnder == 0..1
TableStacks(top, under) ==
    {<<0, "none">>}
    \cup (IF typeOf(top) = "drawTwo" THEN {<<2, "drawTwo">>} ELSE {})
    \cup (IF typeOf(top) = "wildDrawFour" THEN {<<4, "drawFour">>} ELSE {})
    \cup (IF typeOf(top) \in {"skip", "reverse"} /\ under # <<>>
          THEN (IF typeOf(under[1]) = "drawTwo" THEN {<<2, "drawTwo">>}
                ELSE IF typeOf(under[1]) = "wildDrawFour" THEN {<<4, "drawFour">>}
                ELSE {})
          ELSE {})
LateTable(n, seed, top, a, b, color, stack, current) ==
    LET rest == SelectSeq(shuffle(DeckIds, seed), LAMBDA c : c # top)
        under == SubSeq(rest, a + 1, a + b)
        held == SubSeq(rest, a + b + 1, Len(rest))
        dealt == dealHands(held, n, Len(held))
    IN [createGameState(n, TargetScore) EXCEPT
          !.phase = "playing",
          !.players = [i \in 0..(n - 1) |-> [@[i] EXCEPT !.hand = dealt.hands[i]]],
          !.currentPlayerIndex = current,
          !.drawPile = SubSeq(rest, 1, a),
          !.discardPile = Append(under, top),
          !.currentColor = color,
          !.wildColor = [c \in WildIds |->
                           IF c = top THEN color
                           ELSE IF c \in Range(under) THEN COLORS[1] ELSE NoColor],
          !.stackedDrawCount = stack[1],
          !.stackType = stack[2],
          !.lastAction = Action("roundStart", NoPlayer, top, 0)]
InitDraw ==
    /\ \E n \in PlayerCounts, seed \in Seeds, top \in CardIds,
          a \in TablePile, b \in TableUnder :
        \E color \in (IF isWild(top) THEN ColorSet ELSE {createDeck[top].color}) :
          LET rest == SelectSeq(shuffle(DeckIds, seed), LAMBDA c : c # top)
          IN \E stack \in TableStacks(top, SubSeq(rest, a + 1, a + b)) :
                state = LateTable(n, seed, top, a, b, color, stack, 0)
    /\ result = Idle
    /\ now = 0
    /\ steps = MaxSteps - 2
    /\ probe = NoProbe
    /\ lobbyManager = NoLobbies
NextDraw ==
    \/ PlayCard
    \/ PlayerDrawCards
    \/ Respond
SpecDraw == InitDraw /\ [][NextDraw]_vars

Accepted(op) == result'.op = op /\ result # result' /\ result'.success
\* the cards the piles can give: the draw pile and the discards under the top
Supply(s) ==
    Len(s.drawPile) + (IF Len(s.discardPile) > 1 THEN Len(s.discardPile) - 1 ELSE 0)

\* C11: an accepted playerDrawCards gives the current player stackedDrawCount
\* cards when a stack is active and one card otherwise, fewer only when the
\* draw pile and the discards under the top card cannot supply that many, and
\* leaves no stack; every DrawTwo played adds exactly 2 to the stack, so m of
\* them in a row make the next player draw 2m cards.
C11_DrawCount ==
    [][/\ Accepted("playerDrawCards") =>
            LET i == state.currentPlayerIndex
                k == IF state.stackedDrawCount > 0 THEN state.stackedDrawCount ELSE 1
                got == IF k <= Supply(state) THEN k ELSE Supply(state)
            IN /\ Len(result'.drawnCards) = got
               /\ state'.players[i].hand = HandOf(i) \o result'.drawnCards
               /\ \A j \in PlayerIdx(state) \ {i} :
                     state'.players[j].hand = state.players[j].hand
               /\ state'.stackedDrawCount = 0
               /\ state'.stackType = "none"
       /\ (Accepted("playCard") /\ typeOf(result'.cardId) = "drawTwo") =>
            /\ state'.stackedDrawCount = state.stackedDrawCount + 2
            /\ state'.stackType = "drawTwo"]_vars
\* two DrawTwo cards on top of each other and then a draw of four cards
C11_Witness ==
    /\ result.op = "playerDrawCards"
    /\ result.success
    /\ Len(result.drawnCards) = 4
    /\ state.stackedDrawCount = 0
    /\ typeOf(Last(state.discardPile)) = "drawTwo"

\* C12: after an accepted playerDrawCards the turn stays with the drawer
\* exactly when no stack was active, one card was drawn and that card can be
\* played in the resulting state; a draw that resolves a stack always passes
\* the turn on, also when the piles supply a single card.
C12_TurnAfterDraw ==
    [][Accepted("playerDrawCards") =>
          ((state'.currentPlayerIndex = state.currentPlayerIndex)
             <=> /\ state.stackedDrawCount = 0
                 /\ Len(result'.drawnCards) = 1
                 /\ Legal(result'.drawnCards[1], state'))]_vars

\* C13: a WildDrawFour adds exactly 4 to the stack and makes it a drawFour
\* stack when it is played, with or without a colour; chooseColor adds
\* nothing, so the play and the choice together add 4; a plain Wild leaves
\* the stack as it is.
C13_WildDrawFourAddsFourOnce ==
    [][/\ (Accepted("playCard") /\ typeOf(result'.cardId) = "wildDrawFour") =>
            /\ state'.stackedDrawCount = state.stackedDrawCount + 4
            /\ state'.stackType = "drawFour"
       /\ (Accepted("playCard") /\ typeOf(result'.cardId) = "wild") =>
            /\ state'.stackedDrawCount = state.stackedDrawCount
            /\ state'.stackType = state.stackType
       /\ (result'.op = "chooseColor" /\ result # result') =>
            /\ state'.stackedDrawCount = state.stackedDrawCount
            /\ state'.stackType = state.stackType]_vars
\* the colour chosen for a WildDrawFour played without one: the stack is 4
C13_Witness ==
    /\ result.op = "chooseColor"
    /\ result.success
    /\ typeOf(Last(state.discardPile)) = "wildDrawFour"
    /\ state.stackedDrawCount = 4
    /\ state.stackType = "drawFour"
    /\ state.phase = "playing"

\* the seat k places on from seat i in direction d at a table of n
Seat(i, d, k, n) == (i + k * d + k * n) % n

\* C14: chooseColor is accepted only from the current player, while a colour
\* is awaited, with red, yellow, green or blue; then currentColor and the
\* colour of the wild on top of the discard pile are the chosen colour, no
\* colour is awaited any more and the turn moves on by one seat, or the round
\* ends when the chooser holds no card.  A wild played without a colour leaves
\* the turn where it is.
C14_ChooseColor ==
    [][/\ Accepted("chooseColor") =>
            LET i == state.currentPlayerIndex
                top == Last(state.discardPile)
            IN /\ result'.playerId = state.players[i].id
               /\ state.awaitingColorChoice
               /\ result'.color \in {"red", "yellow", "green", "blue"}
               /\ state'.currentColor = result'.color
               /\ state'.discardPile = state.discardPile
               /\ isWild(top) => state'.wildColor[top] = result'.color
               /\ ~state'.awaitingColorChoice
               /\ IF HandOf(i) = <<>>
                  THEN Ended(state') /\ state'.currentPlayerIndex = i
                  ELSE /\ state'.currentPlayerIndex =
                            Seat(i, state.direction, 1, playerCount(state))
                       /\ state'.phase = state.phase
       /\ (Accepted("playCard") /\ isWild(result'.cardId) /\ result'.color = NoColor) =>
            /\ state'.currentPlayerIndex = state.currentPlayerIndex
            /\ state'.awaitingColorChoice]_vars
\* a colour chosen for the wild on top, the turn now with another player
C14_Witness ==
    /\ result.op = "chooseColor"
    /\ result.success
    /\ state.phase = "playing"
    /\ isWild(Last(state.discardPile))
    /\ state.wildColor[Last(state.discardPile)] = result.color
    /\ state.currentColor = result.color
    /\ state.players[state.currentPlayerIndex].id # result.playerId

\* C15: a Reverse or a Skip played on an active stack leaves stackedDrawCount
\* and stackType as they are, and the turn, and with it the stack, goes to a
\* player other than the one who played the card, whatever the number of
\* players.
C15_StackPassesOn ==
    [][(/\ Accepted("playCard")
        /\ typeOf(result'.cardId) \in {"skip", "reverse"}
        /\ state.stackedDrawCount > 0
        /\ state'.phase = "playing") =>
          /\ state'.stackedDrawCount = state.stackedDrawCount
          /\ state'.stackType = state.stackType
          /\ state'.currentPlayerIndex # state.currentPlayerIndex]_vars

\* ------------------------------------------------- advanceTurn on its own
\* The tables advanceTurn is called at: any seat, either direction, the skip
\* flag set or not, any players having declared their last card.
TurnCounts == {2, 3, 4}
SkipAndReverse == {c \in CardIds : typeOf(c) \in {"skip", "reverse"}}
InitTurn ==
    /\ \E n \in TurnCounts, d \in {1, -1}, skip \in BOOLEAN :
        \E i \in 0..(n - 1), called \in [0..(n - 1) -> BOOLEAN] :
            state = [createGameState(n, TargetScore) EXCEPT
                        !.phase = "playing",
                        !.currentPlayerIndex = i,
                        !.direction = d,
                        !.skipNextPlayer = skip,
                        !.players = [p \in 0..(n - 1) |->
                                        [@[p] EXCEPT !.calledUno = called[p]]]]
    /\ result = Idle
    /\ now = 0
    /\ steps = 0
    /\ probe = NoProbe
    /\ lobbyManager = NoLobbies
AskAdvanceTurn ==
    /\ probe = NoProbe
    /\ probe' = [fn |-> "advanceTurn", card |-> NoCard, state |-> advanceTurn(state)]
    /\ UNCHANGED <<state, result, now, steps, lobbyManager>>
\* a Skip or a Reverse is played (the flag is clear between turns) and the
\* turn advances, as playCard does
AskPlayThenAdvance ==
    /\ probe = NoProbe
    /\ ~state.skipNextPlayer
    /\ \E card \in SkipAndReverse :
         probe' = [fn |-> "applyCardEffect", card |-> card,
                   state |-> advanceTurn(applyCardEffect(card, state, NoColor).state)]
    /\ UNCHANGED <<state, result, now, steps, lobbyManager>>
NextTurn ==
    \/ AskAdvanceTurn
    \/ AskPlayThenAdvance
SpecTurn == InitTurn /\ [][NextTurn]_vars

\* C16: advanceTurn moves the turn one seat in the direction of play, one
\* more when skipNextPlayer is set, clears that flag, and clears calledUno of
\* the new current player only; so at a table of three or more the turn after
\* a Skip is two seats on, after a Reverse the next seat in the new direction,
\* and the seat is always one of 0..n-1.
C16_AdvanceTurn ==
    LET n == playerCount(state)
        i == state.currentPlayerIndex
        d == state.direction
        after == probe.state
    IN /\ probe.fn = "advanceTurn" =>
            LET j == Seat(i, d, IF state.skipNextPlayer THEN 2 ELSE 1, n)
            IN /\ after.currentPlayerIndex = j
               /\ j \in 0..(n - 1)
               /\ ~after.skipNextPlayer
               /\ after.direction = d
               /\ \A p \in PlayerIdx(state) :
                     after.players[p].calledUno =
                         (p # j /\ state.players[p].calledUno)
       /\ (probe.fn = "applyCardEffect" /\ n >= 3) =>
            /\ after.currentPlayerIndex \in 0..(n - 1)
            /\ typeOf(probe.card) = "skip" =>
                  /\ after.currentPlayerIndex = Seat(i, d, 2, n)
                  /\ after.direction = d
            /\ typeOf(probe.card) = "reverse" =>
                  /\ after.currentPlayerIndex = Seat(i, 0 - d, 1, n)
                  /\ after.direction = 0 - d
\* four players, play running backwards, a skip pending, and a declaration
\* that survives because its player does not get the turn
C16_Witness ==
    /\ probe.fn = "advanceTurn"
    /\ playerCount(state) = 4
    /\ state.direction = -1
    /\ state.skipNextPlayer
    /\ state.currentPlayerIndex = 1
    /\ probe.state.currentPlayerIndex = 3
    /\ \E p \in PlayerIdx(state) : probe.state.players[p].calledUno
    /\ state.players[3].calledUno

\* C17: with two players an accepted Reverse flips the direction and the player
\* who played it has the next turn, as after an accepted Skip.
C17_TwoPlayerReverse ==
    [][(/\ Accepted("playCard")
        /\ playerCount(state) = 2
        /\ typeOf(result'.cardId) \in {"reverse", "skip"}) =>
          /\ state'.currentPlayerIndex = state.currentPlayerIndex
          /\ state.players[state.currentPlayerIndex].id = result'.playerId
          /\ state'.direction = IF typeOf(result'.cardId) = "reverse"
                                THEN 0 - state.direction ELSE state.direction
          /\ state'.phase = "playing" => ~state'.skipNextPlayer]_vars
\* two players, a Reverse just played, the round going on with the same player
C17_Witness ==
    /\ result.op = "playCard"
    /\ result.success
    /\ typeOf(result.cardId) = "reverse"
    /\ playerCount(state) = 2
    /\ state.phase = "playing"
    /\ state.direction = -1
    /\ state.players[state.currentPlayerIndex].id = result.playerId

\* C18: callUno is accepted only from the current player holding exactly two
\* cards, and then changes nothing but the caller's calledUno flag, which
\* becomes true (and the record of the last action); a rejected callUno
\* changes no flag.
C18_CallUno ==
    [][/\ Accepted("callUno") =>
            LET i == state.currentPlayerIndex
            IN /\ state.players[i].id = result'.playerId
               /\ Len(HandOf(i)) = 2
               /\ state'.players[i].calledUno
               /\ state' = [state EXCEPT !.players[i].calledUno = TRUE,
                                         !.lastAction = state'.lastAction]
       /\ (result'.op = "callUno" /\ result # result' /\ ~result'.success) =>
            state' = state]_vars
\* a declaration just accepted from a player who had not declared
C18_Witness ==
    /\ result.op = "callUno"
    /\ result.success
    /\ state.lastAction.type = "callUno"
    /\ state.players[state.currentPlayerIndex].id = result.playerId
    /\ state.players[state.currentPlayerIndex].calledUno
    /\ Len(state.players[state.currentPlayerIndex].hand) = 2

\* C19: an accepted playCard that leaves a player who has not declared with
\* exactly one card opens a catch window on that player which expires 3000 ms
\* after the play, whether the card is an ordinary card, a wild with a colour
\* or a wild without one.
C19_CatchWindowOpens ==
    [][(/\ Accepted("playCard")
        /\ Len(state'.players[state.currentPlayerIndex].hand) = 1
        /\ ~state.players[state.currentPlayerIndex].calledUno) =>
          state'.unoCallWindow =
              [playerId |-> state.players[state.currentPlayerIndex].id,
               expiresAt |-> now + UnoWindowMs]]_vars
\* a window opened by an ordinary card played after the clock has moved on
C19_Witness ==
    /\ result.op = "playCard"
    /\ result.success
    /\ ~isWild(result.cardId)
    /\ now > 0
    /\ state.phase = "playing"
    /\ state.unoCallWindow = [playerId |-> result.playerId,
                              expiresAt |-> now + UnoWindowMs]
    /\ \E i \in PlayerIdx(state) :
          state.players[i].id = result.playerId /\ Len(state.players[i].hand) = 1

\* C20: a player who declared the last card and then plays down to one card
\* cannot be caught: after that playCard no catch window on that player is
\* open, whether the card is an ordinary card, a wild with a colour or a wild
\* without one.
C20_DeclaredPlayerIsSafe ==
    [][(/\ Accepted("playCard")
        /\ Len(state'.players[state.currentPlayerIndex].hand) = 1
        /\ state.players[state.currentPlayerIndex].calledUno) =>
          state'.unoCallWindow.playerId
              # state.players[state.currentPlayerIndex].id]_vars

\* the cards of sequence a are those of sequence b, each as often
SameCards(a, b) ==
    /\ Len(a) = Len(b)
    /\ \A c \in Range(a) \cup Range(b) : Occurrences(a, c) = Occurrences(b, c)

\* C21: an accepted catchUno against a target moves 4 cards, or as many as the
\* draw pile and the discards under the top card can supply, from the piles
\* to the end of the target's hand and to no other hand, leaves the top
\* discard card in place, closes the window, and leaves currentPlayerIndex,
\* direction, currentColor and the stack as they were.
C21_CatchPenalty ==
    [][Accepted("catchUno") =>
         LET t == findIndex(state, result'.targetId)
             got == IF 4 <= Supply(state) THEN 4 ELSE Supply(state)
             drawn == SubSeq(state'.players[t].hand, Len(HandOf(t)) + 1,
                             Len(state'.players[t].hand))
         IN /\ t # -1
            /\ state.unoCallWindow.playerId = result'.targetId
            /\ Len(state'.players[t].hand) = Len(HandOf(t)) + got
            /\ SubSeq(state'.players[t].hand, 1, Len(HandOf(t))) = HandOf(t)
            /\ \A j \in PlayerIdx(state) \ {t} :
                  state'.players[j].hand = state.players[j].hand
            /\ SameCards(state'.drawPile \o state'.discardPile \o drawn,
                         state.drawPile \o state.discardPile)
            /\ Last(state'.discardPile) = Last(state.discardPile)
            /\ state'.unoCallWindow = NoWindow
            /\ state'.currentPlayerIndex = state.currentPlayerIndex
            /\ state'.direction = state.direction
            /\ state'.currentColor = state.currentColor
            /\ state'.stackedDrawCount = state.stackedDrawCount
            /\ state'.stackType = state.stackType]_vars
\* a catch whose four cards needed the discards: the draw pile ran out and
\* the discard pile is down to its top card
C21_Witness ==
    /\ result.op = "catchUno"
    /\ result.success
    /\ state.lastAction.type = "caughtUno"
    /\ state.lastAction.count = 4
    /\ Len(state.discardPile) = 1
    /\ state.unoCallWindow = NoWindow

\* a catchUno request has just been handled
Answered(op) == result'.op = op /\ result # result'

\* C22: catchUno is accepted only when a window on exactly the target is open
\* and the attempt is made strictly before the window's expiresAt; an attempt
\* at expiresAt or later is never accepted.
C22_CatchOnlyBeforeExpiry ==
    [][Accepted("catchUno") =>
         /\ state.unoCallWindow # NoWindow
         /\ state.unoCallWindow.playerId = result'.targetId
         /\ now < state.unoCallWindow.expiresAt]_vars

\* C23: a catchUno attempt after the window's expiry is rejected with a
\* reason other than the one given when no window is open on the target,
\* adds no card to any hand and clears the window; an attempt with no window
\* on the target is rejected and changes nothing.
C23_RejectedCatch ==
    [][Answered("catchUno") =>
         /\ (\/ state.unoCallWindow = NoWindow
             \/ state.unoCallWindow.playerId # result'.targetId) =>
               /\ ~result'.success
               /\ result'.error = "Cannot catch this player"
               /\ state' = state
         /\ (/\ state.unoCallWindow # NoWindow
             /\ state.unoCallWindow.playerId = result'.targetId
             /\ now > state.unoCallWindow.expiresAt) =>
               /\ ~result'.success
               /\ result'.error # "Cannot catch this player"
               /\ state' = [state EXCEPT !.unoCallWindow = NoWindow]]_vars
\* a catch that came after the expiry of the window on its target
C23_Witness ==
    /\ result.op = "catchUno"
    /\ ~result.success
    /\ result.error = "Catch window has expired"
    /\ state.unoCallWindow = NoWindow
    /\ state.lastAction.type = "playCard"
    /\ state.lastAction.playerId = result.targetId
    /\ now > UnoWindowMs

\* --------------------------------------------------- the start of a round
\* The start of the first round at tables of 2 to 4 players over a wider
\* range of shuffles than the full game explores, followed by the first move;
\* probe records the application of getStartingCard that startRound makes.
StartCounts == {2, 3, 4}
WideSeeds == 1..NumStartSeeds
LoopSeeds == {<<a>> : a \in Seeds} \cup {<<a, b>> : a \in Seeds, b \in Seeds}
InitStart ==
    /\ \E n \in StartCounts : state = createGameState(n, TargetScore)
    /\ result = Idle
    /\ now = 0
    /\ steps = MaxSteps - 1
    /\ probe = NoProbe
    /\ lobbyManager = NoLobbies
StartRoundWide ==
    /\ result = Idle
    /\ state.phase = "starting"
    /\ \E deckSeed \in WideSeeds, startSeeds \in LoopSeeds :
         LET r == startRound(state, deckSeed, startSeeds)
             deck == dealHands(shuffle(DeckIds, deckSeed), playerCount(state),
                               CardsPerPlayer).remainingDeck
         IN /\ r.done
            /\ state' = r.state
            /\ probe' = [fn |-> "getStartingCard", deck |-> deck,
                         seeds |-> startSeeds,
                         out |-> getStartingCard(deck, startSeeds)]
    /\ result' = Request("startRound", NoPlayer, NoCard, NoColor, NoPlayer)
    /\ UNCHANGED <<now, steps, lobbyManager>>
NextStart ==
    \/ StartRoundWide
    \/ PlayCard
    \/ PlayerDrawCards
    \/ Respond
SpecStart == InitStart /\ [][NextStart]_vars

RoundStarted == result'.op = "startRound" /\ result # result'
FreshRound(s) == s.phase = "playing" /\ s.lastAction.type = "roundStart"

C25_StartingCard ==
    /\ (probe.fn = "getStartingCard" /\ probe.out.done) =>
          /\ typeOf(probe.out.startCard) # "wildDrawFour"
          /\ SameCards(Append(probe.out.deck, probe.out.startCard), probe.deck)
    /\ result.op = "startRound" =>
          /\ typeOf(Last(state.discardPile)) # "wildDrawFour"
          /\ SameCards(CardsHeld(state), DeckIds)
\* the deck had a WildDrawFour on top, which went back into the deck
C25_Witness ==
    /\ probe.fn = "getStartingCard"
    /\ probe.out.done
    /\ typeOf(Last(probe.deck)) = "wildDrawFour"
    /\ probe.out.startCard # Last(probe.deck)
    /\ Last(probe.deck) \in Range(probe.out.deck)

\* ------------------------------------------------------------- the piles
\* drawCards and reshuffleDiscardPile applied to the piles of a table: the
\* draw pile holds PileDraw cards, the discard pile PileDiscard cards, all
\* distinct, and every wild on the discard pile carries a chosen colour.
PileDraw == 0..2
PileDiscard == 0..3
DrawCounts == 0..5
InitPiles ==
    /\ \E seed \in WideSeeds, d \in PileDraw, k \in PileDiscard, color \in ColorSet :
         LET deck == shuffle(DeckIds, seed)
             discardPile == SubSeq(deck, d + 1, d + k)
         IN state = [createGameState(2, TargetScore) EXCEPT
                       !.phase = "playing",
                       !.drawPile = SubSeq(deck, 1, d),
                       !.discardPile = discardPile,
                       !.wildColor = [c \in WildIds |->
                                        IF c \in Range(discardPile)
                                        THEN color ELSE NoColor]]
    /\ result = Idle
    /\ now = 0
    /\ steps = 0
    /\ probe = NoProbe
    /\ lobbyManager = NoLobbies
AskDrawCards ==
    /\ probe = NoProbe
    /\ \E count \in DrawCounts, seed \in Seeds :
         probe' = [fn |-> "drawCards", count |-> count,
                   out |-> drawCards(state.drawPile, state.discardPile,
                                     state.wildColor, count, seed)]
    /\ UNCHANGED <<state, result, now, steps, lobbyManager>>
AskReshuffle ==
    /\ probe = NoProbe
    /\ \E seed \in Seeds :
         probe' = [fn |-> "reshuffleDiscardPile",
                   out |-> reshuffleDiscardPile(state.discardPile,
                                                state.wildColor, seed)]
    /\ UNCHANGED <<state, result, now, steps, lobbyManager>>
NextPiles ==
    \/ AskDrawCards
    \/ AskReshuffle
SpecPiles == InitPiles /\ [][NextPiles]_vars

\* C26: drawCards on a draw pile of d cards and a discard pile of k cards
\* returns min(n, d + max(k - 1, 0)) cards, fewer than asked (possibly none)
\* when the piles cannot supply n, with the top discard card still on the
\* discard pile; the cards returned and the piles returned are exactly the
\* cards of the piles given.
C26_DrawCards ==
    probe.fn = "drawCards" =>
        LET d == Len(state.drawPile)
            k == Len(state.discardPile)
            supply == d + (IF k > 1 THEN k - 1 ELSE 0)
            out == probe.out
        IN /\ Len(out.drawnCards) = (IF probe.count <= supply THEN probe.count ELSE supply)
           /\ SameCards(out.drawnCards \o out.drawPile \o out.discardPile,
                        state.drawPile \o state.discardPile)
           /\ k > 0 => /\ out.discardPile # <<>>
                       /\ Last(out.discardPile) = Last(state.discardPile)
           /\ k = 0 => out.discardPile = <<>>
\* the piles could not supply the cards asked for although the discards
\* under the top card were recycled
C26_Witness ==
    /\ probe.fn = "drawCards"
    /\ Len(state.discardPile) = 3
    /\ Len(state.drawPile) = 1
    /\ probe.count = 4
    /\ Len(probe.out.drawnCards) = 3
    /\ probe.out.drawPile = <<>>
    /\ probe.out.discardPile = <<Last(state.discardPile)>>

\* C27: reshuffling a discard pile of k > 1 cards gives a draw pile of
\* exactly the k - 1 cards under the top card and a discard pile of exactly
\* the top card; every Wild and WildDrawFour of the new draw pile has its
\* colour reset to none while the top card keeps its colour; with k <= 1 the
\* piles stay as they are.
C27_Reshuffle ==
    probe.fn = "reshuffleDiscardPile" =>
        LET k == Len(state.discardPile)
            out == probe.out
        IN /\ k > 1 =>
                /\ SameCards(out.newDrawPile, Front(state.discardPile))
                /\ out.newDiscardPile = <<Last(state.discardPile)>>
                /\ \A c \in Range(out.newDrawPile) \cap WildIds :
                      out.wildColor[c] = NoColor
                /\ isWild(Last(state.discardPile)) =>
                      out.wildColor[Last(state.discardPile)]
                          = state.wildColor[Last(state.discardPile)]
           /\ k <= 1 =>
                /\ out.newDrawPile = <<>>
                /\ out.newDiscardPile = state.discardPile
                /\ out.wildColor = state.wildColor
\* a coloured wild on top keeps its colour and a coloured wild under it
\* loses its colour
C27_Witness ==
    /\ probe.fn = "reshuffleDiscardPile"
    /\ Len(state.discardPile) = 3
    /\ isWild(Last(state.discardPile))
    /\ \E c \in Range(Front(state.discardPile)) \cap WildIds :
          state.wildColor[c] # NoColor /\ probe.out.wildColor[c] = NoColor
    /\ probe.out.wildColor[Last(state.discardPile)] # NoColor

\* --------------------------------------------------------------- the deck
\* createDeck with the loop bounds of the source, read card by card
InitDeck ==
    /\ state = createGameState(2, TargetScore)
    /\ result = Idle
    /\ now = 0
    /\ steps = 0
    /\ probe = NoProbe
    /\ lobbyManager = NoLobbies
AskCard ==
    /\ \E i \in 1..Len(FullDeck) :
         probe' = [fn |-> "createDeck", index |-> i, card |-> FullDeck[i]]
    /\ UNCHANGED <<state, result, now, steps, lobbyManager>>
NextDeck == AskCard
SpecDeck == InitDeck /\ [][NextDeck]_vars

CountOf(deck, card) == Cardinality({i \in 1..Len(deck) : deck[i] = card})

\* C28: createDeck returns exactly 108 cards, each with its own id: in each
\* of the 4 colours one 0, two of each of 1 to 9 and two of each of Skip,
\* Reverse and DrawTwo, and 4 Wild and 4 WildDrawFour; a card has a value
\* exactly when it is a number card and has no colour exactly when it is a
\* Wild or a WildDrawFour.
C28_DeckComposition ==
    probe.fn = "createDeck" =>
        /\ Len(FullDeck) = 108
        /\ probe.index \in 1..108
        /\ {AllColors[i] : i \in 1..Len(AllColors)} = {"red", "yellow", "green", "blue"}
        /\ \A c \in {"red", "yellow", "green", "blue"} :
              /\ CountOf(FullDeck, Card("number", c, 0)) = 1
              /\ \A v \in 1..9 : CountOf(FullDeck, Card("number", c, v)) = 2
              /\ \A a \in {"skip", "reverse", "drawTwo"} :
                    CountOf(FullDeck, Card(a, c, NoValue)) = 2
        /\ CountOf(FullDeck, Card("wild", NoColor, NoValue)) = 4
        /\ CountOf(FullDeck, Card("wildDrawFour", NoColor, NoValue)) = 4
        /\ (probe.card.value # NoValue) <=> (probe.card.type = "number")
        /\ (probe.card.color = NoColor)
              <=> (probe.card.type \in {"wild", "wildDrawFour"})
\* the last card pushed, a WildDrawFour
C28_Witness ==
    /\ probe.fn = "createDeck"
    /\ probe.index = 108
    /\ probe.card = Card("wildDrawFour", NoColor, NoValue)

\* ---------------------------------------------------- what a player sees
\* A table late in a round and a second table that differs from it only in
\* what a player is not to see: the order of the draw pile, a card of another
\* player's hand exchanged for a card of the draw pile, or the discard under
\* the top card exchanged for a card of the draw pile.
Reverse(s) == [k \in 1..Len(s) |-> s[Len(s) + 1 - k]]
Hidden(s, playerId) ==
    (IF Len(s.drawPile) >= 2
     THEN {[s EXCEPT !.drawPile = Reverse(@)]} ELSE {})
    \cup (IF Len(s.drawPile) >= 1
          THEN {[s EXCEPT !.drawPile[1] = s.players[j].hand[1],
                          !.players[j].hand[1] = s.drawPile[1]] :
                   j \in {i \in PlayerIdx(s) : /\ s.players[i].id # playerId
                                               /\ s.players[i].hand # <<>>}}
          ELSE {})
    \cup (IF Len(s.drawPile) >= 1 /\ Len(s.discardPile) >= 2
          THEN {[s EXCEPT !.drawPile[1] = s.discardPile[1],
                          !.discardPile[1] = s.drawPile[1]]}
          ELSE {})
AskView ==
    /\ probe = NoProbe
    /\ \E i \in PlayerIdx(state) :
         \E other \in Hidden(state, state.players[i].id) :
            probe' = [fn |-> "getStateForPlayer",
                      playerId |-> state.players[i].id,
                      other |-> other,
                      view |-> getStateForPlayer(state, state.players[i].id),
                      otherView |-> getStateForPlayer(other, state.players[i].id)]
    /\ UNCHANGED <<state, result, now, steps, lobbyManager>>
NextView == AskView
SpecView == InitDraw /\ [][NextView]_vars

\* C29: the view of a player holds the player's own hand in full, the other
\* hands and the draw pile as counts only, and of the discard pile only the
\* top card: two states that differ only in the contents of other players'
\* hands, in the contents or order of the draw pile, or in the discards under
\* the top card give the player the same view.
C29_ViewHidesTheRest ==
    probe.fn = "getStateForPlayer" => probe.view = probe.otherView

\* --------------------------------------------- players coming and going
\* A round in which sockets drop and players come back between the requests:
\* a socket that drops is the socket of a connected player, and a player who
\* comes back was disconnected and gets the id of a new socket.
InitConnect ==
    /\ \E n \in PlayerCounts : state = createGameState(n, TargetScore)
    /\ result = Idle
    /\ now = 0
    /\ steps = MaxSteps - 2
    /\ probe = NoProbe
    /\ lobbyManager = NoLobbies
\* server.js 'disconnect' while a game is in progress
Disconnect ==
    /\ result = Idle
    /\ state.phase # "starting"
    /\ \E i \in PlayerIdx(state) :
         /\ state.players[i].connected
         /\ state' = handleDisconnect(state, state.players[i].id)
         /\ result' = Request("disconnect", state.players[i].id, NoCard, NoColor,
                              NoPlayer)
    /\ UNCHANGED <<now, steps, probe, lobbyManager>>
\* server.js 'joinLobby' of a player who dropped out of the game in progress
Reconnect ==
    /\ result = Idle
    /\ state.phase # "starting"
    /\ \E i \in PlayerIdx(state) :
         LET oldPlayerId == state.players[i].id
             newPlayerId == oldPlayerId + 10
         IN /\ ~state.players[i].connected
            /\ newPlayerId <= MaxSocketId
            /\ state' = lobbyHandleReconnect(state, oldPlayerId, newPlayerId)
            /\ result' = Request("joinLobby", newPlayerId, NoCard, NoColor,
                                 oldPlayerId)
    /\ UNCHANGED <<now, steps, probe, lobbyManager>>
\* handleReconnect of the game state applied for such a player
ReconnectState ==
    /\ result = Idle
    /\ state.phase # "starting"
    /\ \E i \in PlayerIdx(state) :
         LET oldPlayerId == state.players[i].id
             newPlayerId == oldPlayerId + 10
         IN /\ ~state.players[i].connected
            /\ newPlayerId <= MaxSocketId
            /\ state' = handleReconnect(state, oldPlayerId, newPlayerId)
            /\ result' = Request("handleReconnect", newPlayerId, NoCard, NoColor,
                                 oldPlayerId)
    /\ UNCHANGED <<now, steps, probe, lobbyManager>>
NextConnect ==
    \/ StartRound
    \/ PlayCard
    \/ ChooseColor
    \/ PlayerDrawCards
    \/ SkipPlayDrawnCard
    \/ CallUno
    \/ CatchUno
    \/ Disconnect
    \/ Reconnect
    \/ ReconnectState
    \/ Respond
SpecConnect == InitConnect /\ [][NextConnect]_vars

\* the contents of the game are the same in s and t
SameGame(s, t) ==
    /\ \A i \in PlayerIdx(s) : /\ t.players[i].hand = s.players[i].hand
                               /\ t.players[i].score = s.players[i].score
    /\ t.drawPile = s.drawPile
    /\ t.discardPile = s.discardPile
    /\ t.currentPlayerIndex = s.currentPlayerIndex
    /\ t.direction = s.direction
    /\ t.currentColor = s.currentColor
    /\ t.stackedDrawCount = s.stackedDrawCount
    /\ t.stackType = s.stackType

\* C30: a disconnect changes only the connected flag of the player, and a
\* reconnect, through the lobby or through handleReconnect of the game
\* state, changes only the id and the connected flag of the matching player
\* and the host id when it was that player's; hands, piles, scores,
\* currentPlayerIndex, direction, currentColor and the stack stay as they
\* were, wherever in the round the disconnect or reconnect falls.
C30_ConnectionKeepsTheGame ==
    [][/\ Answered("disconnect") =>
            /\ \E i \in PlayerIdx(state) :
                  /\ state.players[i].id = result'.playerId
                  /\ state' = [state EXCEPT !.players[i].connected = FALSE]
            /\ SameGame(state, state')
       /\ Answered("joinLobby") =>
            /\ \E i \in PlayerIdx(state) :
                  /\ state.players[i].id = result'.targetId
                  /\ state' = [state EXCEPT
                                 !.players[i].id = result'.playerId,
                                 !.players[i].connected = TRUE,
                                 !.hostId = IF @ = result'.targetId
                                            THEN result'.playerId ELSE @]
            /\ SameGame(state, state')
       /\ Answered("handleReconnect") =>
            /\ \E i \in PlayerIdx(state) :
                  /\ state.players[i].id = result'.targetId
                  /\ state' = [state EXCEPT
                                 !.players[i].id = result'.playerId,
                                 !.players[i].connected = TRUE]
            /\ SameGame(state, state')]_vars
\* the host dropped while a stack of draws stood against them and came back
\* under a new id
C30_Witness ==
    /\ result.op = "joinLobby"
    /\ state.hostId = result.playerId
    /\ state.phase = "playing"
    /\ state.stackedDrawCount > 0
    /\ state.lastAction.type = "playCard"
    /\ state.players[state.currentPlayerIndex].id = result.playerId
    /\ state.players[state.currentPlayerIndex].connected

\* ------------------------------------------------------------ the lobbies
\* The server with its lobbies: sockets open and close, lobbies are created,
\* joined, left, started and returned to, the players of a started game draw
\* and play, and the cleanup timer fires every CleanupIntervalMs.  The clock
\* moves with the timer; steps counts the calls that changed a game state
\* and probe holds the lobbies the last cleanup removed.  Every game is
\* shuffled the same way.
LobbySeeds == {1}
InitLobby ==
    /\ state = createGameState(2, TargetScore)
    /\ result = Idle
    /\ now = 0
    /\ steps = 0
    /\ probe = NoProbe
    /\ lobbyManager = NoLobbies
\* a request was handled and left the manager as m; steps counts the
\* requests that changed it
LobbyStep(m) ==
    /\ m # lobbyManager
    /\ steps < MaxLobbySteps
    /\ lobbyManager' = m
    /\ steps' = steps + 1
    /\ UNCHANGED <<state, result, now, probe>>
\* io.on('connection'): socket ids are fresh, so the next socket to open is
\* the least id that was never open
Connect ==
    \E s \in SocketIds \ (lobbyManager.open \cup lobbyManager.closed) :
       /\ \A s2 \in SocketIds \ (lobbyManager.open \cup lobbyManager.closed) :
             s <= s2
       /\ LobbyStep([lobbyManager EXCEPT !.open = @ \cup {s}])
\* server.js 'createLobby'
CreateLobby ==
    \E s \in lobbyManager.open :
       \E roomCode \in {r \in Rooms : lobbyManager.lobbies[r] = NoLobby} :
          LobbyStep(createLobby(lobbyManager, roomCode, s, NameOf(s), now))
\* server.js 'joinLobby'
JoinLobby ==
    \E s \in lobbyManager.open, roomCode \in Rooms :
       LobbyStep(joinLobby(lobbyManager, roomCode, s, NameOf(s)))
\* server.js 'startGame'
StartGame ==
    \E s \in lobbyManager.open :
       LET lobby == getLobbyByPlayer(lobbyManager, s)
       IN /\ lobby # NoLobby
          /\ LET r == startGame(lobbyManager, lobby.roomCode, s)
             IN /\ r.success
                /\ \E deckSeed \in LobbySeeds, startSeeds \in StartSeeds :
                     LET g == startRound(createGameStateFor(lobby.players,
                                                            TargetScore),
                                         deckSeed, startSeeds)
                     IN /\ g.done
                        /\ LobbyStep(setGameState(r.m, lobby.roomCode, g.state))
\* a handler of a game request ran in the room of socket s and returned r
HandledIn(s, r) ==
    LET lobby == getLobbyByPlayer(lobbyManager, s)
    IN LobbyStep([lobbyManager EXCEPT
                     !.lobbies[lobby.roomCode].gameState = r.state])
\* server.js 'playCard'
PlayCardIn ==
    \E s \in lobbyManager.open :
       LET lobby == getLobbyByPlayer(lobbyManager, s)
       IN /\ lobby # NoLobby
          /\ lobby.gameState # NoGame
          /\ findIndex(lobby.gameState, s) \in PlayerIdx(lobby.gameState)
          /\ \E cardId \in Range(lobby.gameState.players[
                                    findIndex(lobby.gameState, s)].hand) :
               \E chosenColor \in {NoColor, COLORS[1]} :
                  HandledIn(s, playCard(lobby.gameState, s, cardId,
                                        chosenColor, now))
\* server.js 'drawCard'
DrawCardIn ==
    \E s \in lobbyManager.open :
       LET lobby == getLobbyByPlayer(lobbyManager, s)
       IN /\ lobby # NoLobby
          /\ lobby.gameState # NoGame
          /\ \E seed \in LobbySeeds :
               HandledIn(s, playerDrawCards(lobby.gameState, s, seed))
\* server.js 'returnToLobby'
ReturnToLobby ==
    \E s \in lobbyManager.open :
       LET lobby == getLobbyByPlayer(lobbyManager, s)
       IN /\ lobby # NoLobby
          /\ lobby.hostId = s
          /\ LobbyStep(endGame(lobbyManager, lobby.roomCode))
\* server.js 'leaveLobby'
LeaveLobby ==
    \E s \in lobbyManager.open :
       LobbyStep(leaveLobby(lobbyManager, s).m)
\* server.js 'disconnect': the socket closes for good
CloseSocket ==
    \E s \in lobbyManager.open :
       LET lobby == getLobbyByPlayer(lobbyManager, s)
           r == leaveLobby(lobbyManager, s)
           m1 == IF lobby = NoLobby THEN lobbyManager
                 ELSE IF /\ r.lobby # NoRoom
                         /\ ~r.roomDeleted
                         /\ r.m.lobbies[r.lobby].gameState # NoGame
                 THEN [r.m EXCEPT !.lobbies[r.lobby].gameState =
                                      handleDisconnect(@, s)]
                 ELSE r.m
       IN LobbyStep([m1 EXCEPT !.open = @ \ {s}, !.closed = @ \cup {s}])
\* server.js setInterval: the timer fires QuietPeriods times with no request
\* in between and cleanup runs each time; what the last run leaves is what
\* the runs together leave, since a lobby only ages between them
Cleanup ==
    /\ now < MaxQuiet * QuietPeriods * CleanupIntervalMs
    /\ now' = now + QuietPeriods * CleanupIntervalMs
    /\ lobbyManager' = cleanup(lobbyManager, MaxAgeMs, now')
    /\ probe' = [fn |-> "cleanup", removed |-> expired(lobbyManager, MaxAgeMs, now')]
    /\ UNCHANGED <<state, result, steps>>
NextLobby ==
    \/ Connect
    \/ CreateLobby
    \/ JoinLobby
    \/ StartGame
    \/ PlayCardIn
    \/ DrawCardIn
    \/ ReturnToLobby
    \/ LeaveLobby
    \/ CloseSocket
    \/ Cleanup
SpecLobby == InitLobby /\ [][NextLobby]_vars

PlayersOf(lobby) == {lobby.players[i].id : i \in 1..Len(lobby.players)}

\* C31: the periodic cleanup, wherever it falls between lobby and game
\* actions, never deletes or alters a lobby that holds a game state: a lobby
\* has a game state only while its status is playing, and cleanup removes
\* only lobbies that are not playing and are older than the maximum age,
\* and with them the player-to-room entries of their players and no others.
C31_CleanupSparesGames ==
    [][/\ \A r \in Rooms :
            (/\ lobbyManager'.lobbies[r] # NoLobby
             /\ lobbyManager'.lobbies[r].gameState # NoGame) =>
                lobbyManager'.lobbies[r].status = "playing"
       /\ now' # now =>
            LET removed == {r \in Rooms : /\ lobbyManager.lobbies[r] # NoLobby
                                          /\ lobbyManager'.lobbies[r] = NoLobby}
            IN /\ \A r \in Rooms \ removed :
                     lobbyManager'.lobbies[r] = lobbyManager.lobbies[r]
               /\ \A r \in removed :
                     /\ lobbyManager.lobbies[r].status # "playing"
                     /\ lobbyManager.lobbies[r].gameState = NoGame
                     /\ now' - lobbyManager.lobbies[r].createdAt > MaxAgeMs
               /\ \A s \in SocketIds :
                     IF \E r \in removed : s \in PlayersOf(lobbyManager.lobbies[r])
                     THEN lobbyManager'.playerRooms[s] = NoRoom
                     ELSE lobbyManager'.playerRooms[s] = lobbyManager.playerRooms[s]
               /\ lobbyManager'.disconnectedPlayers = lobbyManager.disconnectedPlayers]_vars
\* a cleanup removed a lobby and left one that is as old and holds a game
C31_Witness ==
    /\ probe.fn = "cleanup"
    /\ probe.removed # {}
    /\ \E r \in Rooms :
          /\ lobbyManager.lobbies[r] # NoLobby
          /\ lobbyManager.lobbies[r].status = "playing"
          /\ lobbyManager.lobbies[r].gameState # NoGame
          /\ lobbyManager.lobbies[r].gameState.lastAction.type # "roundStart"
          /\ now - lobbyManager.lobbies[r].createdAt > MaxAgeMs

\* ------------------------------------------------------- the later claims
\* C32: startNextRound changes the state only in phase roundEnd. There it
\* adds 1 to roundNumber, keeps every cumulative score, deals every player a
\* fresh hand of CardsPerPlayer cards from a newly built deck (every card of
\* the deck is in play exactly once, no wild carries a colour), leaves no
\* catch window and no pending skip, and starts from direction +1, player 0
\* and no stack, which only the effect of the first card changes. In any
\* other phase the state stays as it was.
C32_NextRoundFrame ==
    [][Answered("startNextRound") =>
         IF state.phase # "roundEnd" THEN state' = state
         ELSE LET c == Last(state'.discardPile)
                  n == playerCount(state)
              IN /\ state'.phase = "playing"
                 /\ state'.roundNumber = state.roundNumber + 1
                 /\ Scores(state') = Scores(state)
                 /\ \A i \in PlayerIdx(state) :
                       /\ state'.players[i].id = state.players[i].id
                       /\ Len(state'.players[i].hand) = CardsPerPlayer
                       /\ ~state'.players[i].calledUno
                 /\ Len(state'.discardPile) = 1
                 /\ SameCards(CardsHeld(state'), DeckIds)
                 /\ \A w \in WildIds : state'.wildColor[w] = NoColor
                 /\ state'.unoCallWindow = NoWindow
                 /\ ~state'.skipNextPlayer
                 /\ state'.direction = (IF typeOf(c) = "reverse" THEN -1 ELSE 1)
                 /\ state'.currentPlayerIndex =
                       (CASE typeOf(c) = "skip" -> 1
                          [] typeOf(c) = "reverse" -> (IF n = 2 THEN 1 ELSE n - 1)
                          [] OTHER -> 0)
                 /\ state'.stackedDrawCount = (IF typeOf(c) = "drawTwo" THEN 2 ELSE 0)
                 /\ state'.stackType =
                       (IF typeOf(c) = "drawTwo" THEN "drawTwo" ELSE "none")
                 /\ state'.targetScore = state.targetScore
                 /\ state'.hostId = state.hostId]_vars
\* the second round has just been dealt after a round somebody won
C32_Witness ==
    /\ result.op = "startNextRound"
    /\ state.roundNumber = 2
    /\ state.phase = "playing"
    /\ state.lastAction.type = "roundStart"
    /\ \E i \in PlayerIdx(state) : state.players[i].score > 0
    /\ \A i \in PlayerIdx(state) : Len(HandOf(i)) = CardsPerPlayer

\* C33: skipPlayDrawnCard is accepted only in phase playing, from the current
\* player, with no stack pending and not as the first action of a turn: the
\* last event is not the round start, a play, a colour choice or a skip, each
\* of which hands the turn to the player now to act.
C33_SkipOnlyAfterDraw ==
    [][Accepted("skipPlayDrawnCard") =>
         /\ state.phase = "playing"
         /\ state.players[state.currentPlayerIndex].id = result'.playerId
         /\ state.stackedDrawCount = 0
         /\ state.lastAction.type \notin
               {"roundStart", "playCard", "chooseColor", "skipPlay"}]_vars

\* C34: while the last event is the current player's own draw of one card,
\* which left the turn with them, no playerDrawCards is accepted and an
\* accepted playCard plays the card just drawn, the last of the hand.
C34_OneDrawPerTurn ==
    [][(/\ state.phase = "playing"
        /\ state.lastAction.type = "draw"
        /\ state.lastAction.count = 1
        /\ state.lastAction.playerId = state.players[state.currentPlayerIndex].id) =>
          /\ ~Accepted("playerDrawCards")
          /\ Accepted("playCard") =>
                result'.cardId = Last(HandOf(state.currentPlayerIndex))]_vars


\* C35: catchUno is accepted only against a player who then holds exactly one
\* card and has not declared it (canCatchUno), and never against the catcher
\* themself.
C35_CatchOnlyTheCatchable ==
    [][Accepted("catchUno") =>
         LET t == findIndex(state, result'.targetId)
         IN /\ t # -1
            /\ canCatchUno(state.players[t])
            /\ result'.targetId # result'.playerId]_vars


\* C36: a round that starts on a plain Wild awaits a colour with no current
\* colour and player 0 to act; the colour is chosen by player 0, and the
\* choice leaves player 0 the player to act.
C36_StartingWildKeepsTheTurn ==
    [][/\ (/\ result'.op \in {"startRound", "startNextRound"}
           /\ result # result'
           /\ FreshRound(state')
           /\ typeOf(Last(state'.discardPile)) = "wild") =>
             /\ state'.awaitingColorChoice
             /\ state'.currentColor = NoColor
             /\ state'.currentPlayerIndex = 0
       /\ (/\ Accepted("chooseColor")
           /\ FreshRound(state)
           /\ typeOf(Last(state.discardPile)) = "wild") =>
             /\ result'.playerId = state.players[0].id
             /\ ~state'.awaitingColorChoice
             /\ state'.currentColor = result'.color
             /\ state'.currentPlayerIndex = 0]_vars


\* C37: in phase playing no hand is empty; in phases roundEnd and gameOver
\* exactly one hand is empty, and it is the hand of the player the round-end
\* event names as the winner.
C37_EmptyHandIsTheWinner ==
    LET empty == {i \in PlayerIdx(state) : HandOf(i) = <<>>}
    IN /\ state.phase = "playing" => empty = {}
       /\ Ended(state) =>
            /\ Cardinality(empty) = 1
            /\ state.lastAction.type = "roundEnd" =>
                  \A i \in empty : state.players[i].id = state.lastAction.winnerId
\* a round has ended while another player still held two cards or more
C37_Witness ==
    /\ state.phase = "roundEnd"
    /\ state.lastAction.type = "roundEnd"
    /\ \E i \in PlayerIdx(state) : HandOf(i) = <<>>
    /\ \E i \in PlayerIdx(state) : Len(HandOf(i)) >= 2


\* C38: in phase playing with no colour awaited, currentColor is one of the
\* colours of the deck and is the colour the top card of the discard pile
\* carries, for a wild the colour stamped on it.
C38_ColorOfTheTopCard ==
    (state.phase = "playing" /\ ~state.awaitingColorChoice) =>
        /\ state.currentColor \in Range(COLORS)
        /\ state.discardPile # <<>>
        /\ state.currentColor = colorOf(state.wildColor, Last(state.discardPile))


\* the stack and the direction of state s are consistent
StackConsistent(s) ==
    /\ s.stackedDrawCount = 0 <=> s.stackType = "none"
    /\ s.stackType \in {"none", "drawTwo", "drawFour"}
    /\ s.stackType = "drawTwo" =>
          s.stackedDrawCount > 0 /\ s.stackedDrawCount % 2 = 0
    /\ s.stackType = "drawFour" =>
          s.stackedDrawCount > 0 /\ s.stackedDrawCount % 4 = 0
    /\ s.direction \in {1, -1}

\* C39: stackedDrawCount is 0 exactly when stackType is none; a drawTwo stack
\* counts a positive multiple of 2 and a drawFour stack a positive multiple
\* of 4; a stack that grows within a round keeps its type and grows by the
\* penalty of that type; direction is always +1 or -1.
C39_StackConsistency ==
    [][/\ StackConsistent(state')
       /\ (/\ state.stackType # "none"
           /\ state'.roundNumber = state.roundNumber
           /\ state'.stackedDrawCount > state.stackedDrawCount) =>
             /\ state'.stackType = state.stackType
             /\ state'.stackedDrawCount - state.stackedDrawCount =
                   (IF state.stackType = "drawTwo" THEN 2 ELSE 4)]_vars
\* a DrawTwo has been played onto a DrawTwo stack
C39_Witness ==
    /\ state.phase = "playing"
    /\ state.stackType = "drawTwo"
    /\ state.stackedDrawCount = 4
    /\ state.lastAction.type = "playCard"


\* C40: in every playing state an action of the current player is accepted:
\* chooseColor with any of the colours while a colour is awaited, and
\* playerDrawCards otherwise; when the draw pile and the discards under the
\* top card hold no card, that draw gives zero cards and passes the turn on.
C40_NoDeadlock ==
    state.phase = "playing" =>
        LET id == state.players[state.currentPlayerIndex].id
        IN IF state.awaitingColorChoice
           THEN \A color \in ColorSet : chooseColor(state, id, color).success
           ELSE \A seed \in Seeds :
                  LET r == playerDrawCards(state, id, seed)
                  IN /\ r.success
                     /\ Supply(state) = 0 =>
                           /\ r.drawnCards = <<>>
                           /\ r.state.currentPlayerIndex # state.currentPlayerIndex
                           /\ r.state.phase = "playing"
\* a draw was accepted although no card could be supplied: the drawer got
\* nothing and the next player is to act
C40_Witness ==
    /\ result.op = "playerDrawCards"
    /\ result.success
    /\ result.drawnCards = <<>>
    /\ state.phase = "playing"
    /\ state.lastAction.type = "draw"
    /\ state.lastAction.count = 0
    /\ state.lastAction.playerId # state.players[state.currentPlayerIndex].id

====
